---- MODULE Spec2Model ----
(***************************************************************************)
(* Model of the indexing and retrieval engine of the DAM repository        *)
(* (crates/index): the document model (document.rs), the inverted text     *)
(* index (text_search.rs), the vector store (vector.rs) and the index      *)
(* service with its durable document store (lib.rs).                       *)
(*                                                                         *)
(* Representation.  A string is a sequence of one-character strings.  An   *)
(* Option is a sequence of length 0 (None) or 1 (Some).  A HashMap is a    *)
(* function whose domain is the key set.  The sled store is a function     *)
(* from document id to the stored bytes; its iteration order is the key    *)
(* order.  A Uuid is a small natural number; Uuid::new_v4 picks any id     *)
(* that is not in use.  f32 embedding components are integers; a           *)
(* normalized vector v/|v| is the pair (direction, squared magnitude).     *)
(* Scores are fixed-point integers (see ScoreScale).                       *)
(***************************************************************************)
EXTENDS Integers, Sequences, FiniteSets, TLC

(***************************************************************************)
(* Bounds of the model.                                                    *)
(***************************************************************************)
MaxDocs == 2

\* how many operations of the durable store may fail in one run
MaxFaults == 1

DocIds == 1..MaxDocs

(***************************************************************************)
(* Option and map helpers.                                                 *)
(***************************************************************************)
None == << >>

Some(x) == << x >>

IsSome(o) == Len(o) = 1

EmptyMap == [x \in {} |-> 0]

MapInsert(m, k, v) == [x \in DOMAIN m \cup {k} |-> IF x = k THEN v ELSE m[x]]

MapRemove(m, k) == [x \in DOMAIN m \ {k} |-> m[x]]

Min2(a, b) == IF a <= b THEN a ELSE b

(***************************************************************************)
(* Characters and strings.                                                 *)
(***************************************************************************)
\* the Debug names of AssetType
DebugImage == << "I", "m", "a", "g", "e" >>

DebugAudio == << "A", "u", "d", "i", "o" >>

\* str::to_lowercase on the characters the model uses
ToLowerChar(c) ==
    CASE c = "A" -> "a"
      [] c = "B" -> "b"
      [] c = "C" -> "c"
      [] c = "D" -> "d"
      [] c = "I" -> "i"
      [] OTHER -> c

ToLowercase(s) == [i \in 1..Len(s) |-> ToLowerChar(s[i])]

\* char::is_alphanumeric on the characters the model uses
IsAlphanumeric(c) ==
    c \in {"a", "b", "c", "d", "e", "g", "i", "m", "o", "u", "x",
           "A", "B", "C", "D", "I",
           "0", "1", "2", "3", "4", "5", "6", "7", "8", "9"}

\* code points, for the byte-wise ordering of String
CharCode(c) ==
    CASE c = " " -> 32
      [] c = "!" -> 33
      [] c = "-" -> 45
      [] c = "." -> 46
      [] c = "0" -> 48
      [] c = "1" -> 49
      [] c = "2" -> 50
      [] c = "3" -> 51
      [] c = "4" -> 52
      [] c = "5" -> 53
      [] c = "6" -> 54
      [] c = "7" -> 55
      [] c = "8" -> 56
      [] c = "9" -> 57
      [] c = "A" -> 65
      [] c = "B" -> 66
      [] c = "C" -> 67
      [] c = "D" -> 68
      [] c = "I" -> 73
      [] c = "_" -> 95
      [] c = "a" -> 97
      [] c = "b" -> 98
      [] c = "c" -> 99
      [] c = "d" -> 100
      [] c = "e" -> 101
      [] c = "g" -> 103
      [] c = "i" -> 105
      [] c = "m" -> 109
      [] c = "o" -> 111
      [] c = "u" -> 117
      [] c = "x" -> 120
      [] OTHER -> 127

RECURSIVE StrLessFrom(_, _, _)
StrLessFrom(a, b, i) ==
    IF i > Len(a) THEN i <= Len(b)
    ELSE IF i > Len(b) THEN FALSE
    ELSE IF CharCode(a[i]) < CharCode(b[i]) THEN TRUE
    ELSE IF CharCode(a[i]) > CharCode(b[i]) THEN FALSE
    ELSE StrLessFrom(a, b, i + 1)

\* Ord for String: lexicographic on bytes
StrLess(a, b) == StrLessFrom(a, b, 1)

RECURSIVE Join(_, _)
\* [String]::join(sep)
Join(parts, sep) ==
    IF Len(parts) = 0 THEN << >>
    ELSE IF Len(parts) = 1 THEN parts[1]
    ELSE parts[1] \o sep \o Join(Tail(parts), sep)

RECURSIVE InsertSorted(_, _)
InsertSorted(sorted, s) ==
    IF Len(sorted) = 0 THEN << s >>
    ELSE IF StrLess(s, sorted[1]) THEN << s >> \o sorted
    ELSE << sorted[1] >> \o InsertSorted(Tail(sorted), s)

RECURSIVE SortStrings(_)
\* Vec<String>::sort
SortStrings(v) ==
    IF Len(v) = 0 THEN << >>
    ELSE InsertSorted(SortStrings(Tail(v)), v[1])

RECURSIVE Dedup(_)
\* Vec::dedup: drops consecutive repeated elements
Dedup(v) ==
    IF Len(v) <= 1 THEN v
    ELSE IF v[1] = v[2] THEN Dedup(Tail(v))
    ELSE << v[1] >> \o Dedup(Tail(v))

DigitChar(d) == << "0", "1", "2", "3", "4", "5", "6", "7", "8", "9" >>[d + 1]

RECURSIVE Decimal(_)
\* Display of an unsigned integer, as format!("{}", n) prints it
Decimal(n) ==
    IF n < 10 THEN << DigitChar(n) >>
    ELSE Decimal(n \div 10) \o << DigitChar(n % 10) >>

(***************************************************************************)
(* TextIndex::tokenize (text_search.rs).                                   *)
(***************************************************************************)
IsWhitespace(c) == c = " "

RECURSIVE SplitFrom(_, _, _)
SplitFrom(s, i, cur) ==
    IF i > Len(s) THEN (IF Len(cur) = 0 THEN << >> ELSE << cur >>)
    ELSE IF IsWhitespace(s[i])
         THEN (IF Len(cur) = 0 THEN SplitFrom(s, i + 1, << >>)
               ELSE << cur >> \o SplitFrom(s, i + 1, << >>))
         ELSE SplitFrom(s, i + 1, Append(cur, s[i]))

\* str::split_whitespace: the maximal runs of non-whitespace characters
SplitWhitespace(s) == SplitFrom(s, 1, << >>)

KeepChar(c) == IsAlphanumeric(c) \/ c = "-" \/ c = "_"

MinTermLen == 2

LongEnough(term) == Len(term) >= MinTermLen

Tokenize(text) ==
    LET words == SplitWhitespace(ToLowercase(text))
        cleaned == [i \in 1..Len(words) |-> SelectSeq(words[i], KeepChar)]
    IN  SelectSeq(cleaned, LongEnough)

(***************************************************************************)
(* The document model (document.rs).                                       *)
(***************************************************************************)
\* format!("{:?}", asset_type).to_lowercase()
AssetTypeLabel(t) == ToLowercase(IF t = "Image" THEN DebugImage ELSE DebugAudio)

OptList(o) == IF IsSome(o) THEN << o[1] >> ELSE << >>

SearchTextOf(d) ==
    LET dims == IF IsSome(d.dimensions)
                THEN << Decimal(d.dimensions[1][1]) \o << "x" >>
                        \o Decimal(d.dimensions[1][2]) >>
                ELSE << >>
        search_parts ==
            << d.filename, d.title >>
            \o OptList(d.description) \o OptList(d.transcription)
            \o OptList(d.extracted_text) \o OptList(d.ai_caption)
            \o d.tags \o d.ai_tags \o d.dominant_colors
            \o << AssetTypeLabel(d.asset_type) >>
            \o dims
    IN  ToLowercase(Join(search_parts, << " " >>))

update_search_text(d) == [d EXCEPT !.search_text = SearchTextOf(d)]

\* quality scores are counted in tenths
QualityOne == 10

from_asset(asset, new_id) ==
    update_search_text(
        [ id |-> new_id,
          asset_id |-> asset.id,
          filename |-> asset.filename,
          asset_type |-> asset.asset_type,
          created_recently |-> asset.created_recently,
          title |-> asset.filename,
          description |-> None,
          tags |-> asset.tags,
          transcription |-> asset.transcription,
          extracted_text |-> None,
          ai_tags |-> << >>,
          ai_caption |-> None,
          dominant_colors |-> << >>,
          dimensions |-> asset.dimensions,
          visual_embedding |-> asset.embedding,
          text_embedding |-> None,
          search_text |-> << >>,
          quality_score |-> QualityOne ])

\* add_tags without the sort: dedup alone drops only neighbouring repeats
add_tags_NoSort(d, tags) ==
    update_search_text([d EXCEPT !.tags = Dedup(d.tags \o tags)])

add_tags(d, tags) ==
    update_search_text([d EXCEPT !.tags = Dedup(SortStrings(d.tags \o tags))])

add_ai_tags(d, tags) ==
    update_search_text([d EXCEPT !.ai_tags = Dedup(SortStrings(d.ai_tags \o tags))])

set_transcription(d, transcription) ==
    update_search_text([d EXCEPT !.transcription = Some(transcription)])

set_ai_caption(d, caption) ==
    update_search_text([d EXCEPT !.ai_caption = Some(caption)])

set_visual_embedding(d, embedding) ==
    [d EXCEPT !.visual_embedding = Some(embedding)]

set_text_embedding(d, embedding) ==
    [d EXCEPT !.text_embedding = Some(embedding)]

QualityOf(d) ==
    QualityOne
    + (IF IsSome(d.description) THEN 2 ELSE 0)
    + (IF Len(d.tags) > 0 THEN Min2(Len(d.tags), 5) ELSE 0)
    + (IF Len(d.ai_tags) > 0 THEN Min2(Len(d.ai_tags), 3) ELSE 0)
    + (IF IsSome(d.transcription) THEN 3 ELSE 0)
    + (IF IsSome(d.visual_embedding) THEN 2 ELSE 0)
    + (IF IsSome(d.text_embedding) THEN 2 ELSE 0)
    + (IF d.created_recently THEN 1 ELSE 0)

calculate_quality_score(d) == [d EXCEPT !.quality_score = QualityOf(d)]

(***************************************************************************)
(* The text index (text_search.rs).  A text index value is a record        *)
(* [term_index, document_terms]; boosts are counted in tenths.             *)
(***************************************************************************)
EmptyTextIndex == [term_index |-> EmptyMap, document_terms |-> EmptyMap]

\* remove_document with the loop over the terms left out
TextRemoveDocument_ReverseOnly(T, doc_id) ==
    [T EXCEPT !.document_terms = MapRemove(T.document_terms, doc_id)]

\* remove_document without the pruning of terms left with no postings
TextRemoveDocument_NoPrune(T, doc_id) ==
    IF doc_id \notin DOMAIN T.document_terms THEN T
    ELSE LET terms == T.document_terms[doc_id]
             touched == terms \cap DOMAIN T.term_index
         IN  [term_index |->
                  [t \in DOMAIN T.term_index |->
                      IF t \in touched THEN MapRemove(T.term_index[t], doc_id)
                      ELSE T.term_index[t]],
              document_terms |-> MapRemove(T.document_terms, doc_id)]

TextRemoveDocument(T, doc_id) ==
    IF doc_id \notin DOMAIN T.document_terms THEN T
    ELSE LET terms == T.document_terms[doc_id]
             touched == terms \cap DOMAIN T.term_index
             pruned(t) == MapRemove(T.term_index[t], doc_id)
             kept == {t \in DOMAIN T.term_index :
                        t \notin touched \/ DOMAIN pruned(t) # {}}
         IN  [term_index |->
                  [t \in kept |-> IF t \in touched THEN pruned(t)
                                  ELSE T.term_index[t]],
              document_terms |-> MapRemove(T.document_terms, doc_id)]

RECURSIVE IndexTerms(_, _, _, _, _, _, _)
\* the loop of index_field: acc is [term_index, doc_terms]
IndexTerms(acc, doc_id, field, terms, position, boost, n) ==
    IF position >= n THEN acc
    ELSE LET term == terms[position + 1]
             doc_map == IF term \in DOMAIN acc.term_index
                        THEN acc.term_index[term] ELSE EmptyMap
             occurrences == IF doc_id \in DOMAIN doc_map
                            THEN doc_map[doc_id] ELSE << >>
             occ == [field |-> field, position |-> position,
                     score_boost |-> boost]
         IN  IndexTerms(
                 [term_index |->
                      MapInsert(acc.term_index, term,
                          MapInsert(doc_map, doc_id, Append(occurrences, occ))),
                  doc_terms |-> acc.doc_terms \cup {term}],
                 doc_id, field, terms, position + 1, boost, n)

index_field(acc, doc_id, field, text, boost) ==
    LET terms == Tokenize(text)
    IN  IndexTerms(acc, doc_id, field, terms, 0, boost, Len(terms))

\* the fields add_document indexes, in its order, with their boosts
BoostedFields(d) ==
    << [field |-> "filename", text |-> d.filename, boost |-> 20],
       [field |-> "title", text |-> d.title, boost |-> 18],
       [field |-> "tags", text |-> Join(d.tags, << " " >>), boost |-> 25],
       [field |-> "ai_tags", text |-> Join(d.ai_tags, << " " >>), boost |-> 20] >>
    \o (IF IsSome(d.description)
        THEN << [field |-> "description", text |-> d.description[1], boost |-> 15] >>
        ELSE << >>)
    \o (IF IsSome(d.transcription)
        THEN << [field |-> "transcription", text |-> d.transcription[1], boost |-> 18] >>
        ELSE << >>)
    \o (IF IsSome(d.ai_caption)
        THEN << [field |-> "ai_caption", text |-> d.ai_caption[1], boost |-> 16] >>
        ELSE << >>)
    \o (IF IsSome(d.extracted_text)
        THEN << [field |-> "extracted_text", text |-> d.extracted_text[1], boost |-> 14] >>
        ELSE << >>)
    \o << [field |-> "asset_type", text |-> AssetTypeLabel(d.asset_type), boost |-> 12] >>

RECURSIVE IndexFields(_, _, _, _)
IndexFields(acc, doc_id, fields, i) ==
    IF i > Len(fields) THEN acc
    ELSE IndexFields(
             index_field(acc, doc_id, fields[i].field, fields[i].text,
                         fields[i].boost),
             doc_id, fields, i + 1)

\* add_document without the call of remove_document
TextAddDocument_KeepsOld(T, d) ==
    LET indexed == IndexFields([term_index |-> T.term_index, doc_terms |-> {}],
                               d.id, BoostedFields(d), 1)
    IN  [term_index |-> indexed.term_index,
         document_terms |-> MapInsert(T.document_terms, d.id, indexed.doc_terms)]

TextAddDocument(T, d) ==
    LET removed == TextRemoveDocument(T, d.id)
        indexed == IndexFields([term_index |-> removed.term_index,
                                doc_terms |-> {}],
                               d.id, BoostedFields(d), 1)
    IN  [term_index |-> indexed.term_index,
         document_terms |-> MapInsert(removed.document_terms, d.id,
                                      indexed.doc_terms)]

(***************************************************************************)
(* TextIndex::search.  Scores are fixed-point: a term score is counted in  *)
(* units of 1/10000 (ln in thousandths times boost in tenths), a final     *)
(* score in units of 1/1000000.                                            *)
(***************************************************************************)
MinQueryLength == 2

\* 1000 * ln(n), rounded
Ln1000(n) == << 0, 693, 1099, 1386, 1609, 1792, 1946, 2079 >>[n]

RECURSIVE SumBoost(_)
SumBoost(occurrences) ==
    IF Len(occurrences) = 0 THEN 0
    ELSE occurrences[1].score_boost + SumBoost(Tail(occurrences))

\* tf * idf * boost with tf = len, boost = sum / len, that is idf * sum
calculate_term_score(T, occurrences, doc_freq) ==
    LET idf == Ln1000(Cardinality(DOMAIN T.document_terms)) - Ln1000(doc_freq + 1)
    IN  idf * SumBoost(occurrences)

TermHits(T, term, doc_id) ==
    term \in DOMAIN T.term_index /\ doc_id \in DOMAIN T.term_index[term]

RECURSIVE SumTermScores(_, _, _, _)
\* doc_scores[doc_id] after the loop over the query terms
SumTermScores(T, terms, doc_id, i) ==
    IF i > Len(terms) THEN 0
    ELSE (IF TermHits(T, terms[i], doc_id)
          THEN calculate_term_score(T, T.term_index[terms[i]][doc_id],
                                    Cardinality(DOMAIN T.term_index[terms[i]]))
          ELSE 0)
         + SumTermScores(T, terms, doc_id, i + 1)

RECURSIVE CollectMatches(_, _, _, _)
\* doc_matches[doc_id] after the loop over the query terms
CollectMatches(T, terms, doc_id, i) ==
    IF i > Len(terms) THEN << >>
    ELSE (IF TermHits(T, terms[i], doc_id)
          THEN LET occurrences == T.term_index[terms[i]][doc_id]
               IN  [k \in 1..Len(occurrences) |->
                       [field_name |-> occurrences[k].field,
                        match_text |-> terms[i],
                        position |-> occurrences[k].position]]
          ELSE << >>)
         \o CollectMatches(T, terms, doc_id, i + 1)

has_all_terms(T, terms, doc_id) ==
    \A i \in 1..Len(terms) : TermHits(T, terms[i], doc_id)

\* boost_phrase_matches without the second multiplier
boost_phrase_matches_NoExact(T, terms, doc_id, score) ==
    IF has_all_terms(T, terms, doc_id) THEN score * 15 * 10 ELSE score * 100

\* the per-document score after boost_phrase_matches
boost_phrase_matches(T, terms, doc_id, score) ==
    IF has_all_terms(T, terms, doc_id)
    THEN (IF Len(terms) > 1 THEN score * 15 * 12 ELSE score * 15 * 10)
    ELSE score * 100

FinalScore(T, terms, doc_id) ==
    LET score == SumTermScores(T, terms, doc_id, 1)
    IN  IF Len(terms) > 1 THEN boost_phrase_matches(T, terms, doc_id, score)
        ELSE score * 100

\* the documents that hold every term of the query
MatchedDocs_AllTerms(T, terms) ==
    {d \in DOMAIN T.document_terms :
        \A i \in 1..Len(terms) : TermHits(T, terms[i], d)}

MatchedDocs(T, terms) ==
    {d \in DOMAIN T.document_terms \cup
           UNION {DOMAIN T.term_index[t] : t \in DOMAIN T.term_index} :
        \E i \in 1..Len(terms) : TermHits(T, terms[i], d)}

\* every order a stable descending sort can give to a map iterated in
\* arbitrary order
SortedOrders(D, key) ==
    LET n == Cardinality(D)
    IN  {s \in [1..n -> D] :
            /\ \A i, j \in 1..n : i # j => s[i] # s[j]
            /\ \A i \in 1..n : i < n => key[s[i]] >= key[s[i + 1]]}

\* a truncation that keeps the end of the list
Truncate_KeepsTail(s, n) == SubSeq(s, Len(s) - Min2(n, Len(s)) + 1, Len(s))

Truncate(s, n) == SubSeq(s, 1, Min2(n, Len(s)))

\* a search that takes a query without terms as matching every document
TextSearch_NoTermsMatchAll(T, query, max_results) ==
    LET terms == Tokenize(query)
        docs == IF Len(terms) = 0 THEN DOMAIN T.document_terms
                ELSE MatchedDocs(T, terms)
        score == [d \in docs |->
                     IF Len(terms) = 0 THEN 0 ELSE FinalScore(T, terms, d)]
    IN  {Truncate([i \in 1..Len(o) |->
                      [document_id |-> o[i], score |-> score[o[i]],
                       matches |-> CollectMatches(T, terms, o[i], 1)]],
                  max_results) : o \in SortedOrders(docs, score)}

\* the set of results TextIndex::search may return
TextSearch(T, query, max_results) ==
    IF Len(query) < MinQueryLength THEN {<< >>}
    ELSE LET terms == Tokenize(query)
         IN  IF Len(terms) = 0 THEN {<< >>}
             ELSE LET docs == MatchedDocs(T, terms)
                      score == [d \in docs |-> FinalScore(T, terms, d)]
                      orders == SortedOrders(docs, score)
                  IN  {Truncate([i \in 1..Len(o) |->
                                    [document_id |-> o[i],
                                     score |-> score[o[i]],
                                     matches |-> CollectMatches(T, terms, o[i], 1)]],
                                max_results) : o \in orders}

TextStats(T) ==
    [total_terms |-> Cardinality(DOMAIN T.term_index),
     total_documents |-> Cardinality(DOMAIN T.document_terms)]

(***************************************************************************)
(* The vector store (vector.rs).  A vector store value is a record         *)
(* [visual_embeddings, text_embeddings, visual_dim, text_dim].             *)
(***************************************************************************)
Abs(x) == IF x < 0 THEN 0 - x ELSE x

RECURSIVE Gcd(_, _)
Gcd(a, b) == IF b = 0 THEN a ELSE Gcd(b, a % b)

RECURSIVE GcdAll(_)
GcdAll(v) == IF Len(v) = 0 THEN 0 ELSE Gcd(Abs(v[1]), GcdAll(Tail(v)))

RECURSIVE SumSquares(_)
SumSquares(v) == IF Len(v) = 0 THEN 0 ELSE v[1] * v[1] + SumSquares(Tail(v))

\* v / |v| as the pair (dir, sq) standing for dir / sqrt(sq), in lowest
\* terms so that equal unit vectors are equal pairs; a zero vector is
\* returned unchanged
normalize_vector(v) ==
    IF SumSquares(v) = 0 THEN [dir |-> v, sq |-> 1]
    ELSE LET g == GcdAll(v)
             dir == [i \in 1..Len(v) |-> v[i] \div g]
         IN  [dir |-> dir, sq |-> SumSquares(dir)]

VecLen(nv) == Len(nv.dir)

EmptyVectorStore ==
    [visual_embeddings |-> EmptyMap, text_embeddings |-> EmptyMap,
     visual_dim |-> None, text_dim |-> None]

\* add_visual_embedding recording the length before it validates it
add_visual_embedding_RecordsFirst(V, doc_id, embedding) ==
    IF IsSome(V.visual_dim) /\ Len(embedding) # V.visual_dim[1]
    THEN [ok |-> FALSE,
          store |-> [V EXCEPT !.visual_dim = Some(Len(embedding))]]
    ELSE [ok |-> TRUE,
          store |-> [V EXCEPT
              !.visual_dim = Some(Len(embedding)),
              !.visual_embeddings =
                  MapInsert(V.visual_embeddings, doc_id,
                            normalize_vector(embedding))]]

\* the result of a fallible VectorStore operation: the store it leaves and
\* whether it returned Ok
add_visual_embedding(V, doc_id, embedding) ==
    IF IsSome(V.visual_dim) /\ Len(embedding) # V.visual_dim[1]
    THEN [ok |-> FALSE, store |-> V]
    ELSE [ok |-> TRUE,
          store |-> [V EXCEPT
              !.visual_dim = IF IsSome(V.visual_dim) THEN V.visual_dim
                             ELSE Some(Len(embedding)),
              !.visual_embeddings =
                  MapInsert(V.visual_embeddings, doc_id,
                            normalize_vector(embedding))]]

\* add_text_embedding without the validation of the length
add_text_embedding_Unchecked(V, doc_id, embedding) ==
    [ok |-> TRUE,
     store |-> [V EXCEPT
         !.text_dim = IF IsSome(V.text_dim) THEN V.text_dim
                      ELSE Some(Len(embedding)),
         !.text_embeddings =
             MapInsert(V.text_embeddings, doc_id, normalize_vector(embedding))]]

add_text_embedding(V, doc_id, embedding) ==
    IF IsSome(V.text_dim) /\ Len(embedding) # V.text_dim[1]
    THEN [ok |-> FALSE, store |-> V]
    ELSE [ok |-> TRUE,
          store |-> [V EXCEPT
              !.text_dim = IF IsSome(V.text_dim) THEN V.text_dim
                           ELSE Some(Len(embedding)),
              !.text_embeddings =
                  MapInsert(V.text_embeddings, doc_id,
                            normalize_vector(embedding))]]

\* remove_document that unsets the dimension of a kind left without vectors
VectorRemoveDocument_ResetsDim(V, doc_id) ==
    LET visual == MapRemove(V.visual_embeddings, doc_id)
        text == MapRemove(V.text_embeddings, doc_id)
    IN  [visual_embeddings |-> visual,
         text_embeddings |-> text,
         visual_dim |-> IF visual = EmptyMap THEN None ELSE V.visual_dim,
         text_dim |-> IF text = EmptyMap THEN None ELSE V.text_dim]

VectorRemoveDocument(V, doc_id) ==
    [V EXCEPT !.visual_embeddings = MapRemove(V.visual_embeddings, doc_id),
              !.text_embeddings = MapRemove(V.text_embeddings, doc_id)]

RECURSIVE load_from_documents(_, _, _)
\* documents is a sequence; the first failing add ends the load
load_from_documents(V, documents, i) ==
    IF i > Len(documents) THEN [ok |-> TRUE, store |-> V]
    ELSE LET doc == documents[i]
             r1 == IF IsSome(doc.visual_embedding)
                   THEN add_visual_embedding(V, doc.id, doc.visual_embedding[1])
                   ELSE [ok |-> TRUE, store |-> V]
             r2 == IF IsSome(doc.text_embedding)
                   THEN add_text_embedding(r1.store, doc.id, doc.text_embedding[1])
                   ELSE [ok |-> TRUE, store |-> r1.store]
         IN  IF ~r1.ok THEN r1
             ELSE IF ~r2.ok THEN r2
             ELSE load_from_documents(r2.store, documents, i + 1)

(***************************************************************************)
(* Similarity search.  A similarity is a fixed-point number in units of    *)
(* 1/ScoreScale, rounded towards zero to a thousandth.                     *)
(***************************************************************************)
ScoreScale == 1000000

SimilarityStep == 1000

RECURSIVE ISqrtIn(_, _, _)
\* the largest k in lo..hi with k * k <= x
ISqrtIn(x, lo, hi) ==
    IF lo >= hi THEN lo
    ELSE LET mid == (lo + hi + 1) \div 2
         IN  IF mid * mid <= x THEN ISqrtIn(x, mid, hi)
             ELSE ISqrtIn(x, lo, mid - 1)

RECURSIVE Dot(_, _, _)
Dot(a, b, i) == IF i > Len(a) THEN 0 ELSE a[i] * b[i] + Dot(a, b, i + 1)

\* the dot product of two normalized vectors of one length:
\* (a.dir . b.dir) / sqrt(a.sq * b.sq)
cosine_similarity(a, b) ==
    LET n == Dot(a.dir, b.dir, 1)
        m == a.sq * b.sq
        thousandths == ISqrtIn((n * n * SimilarityStep * SimilarityStep) \div m,
                               0, SimilarityStep)
    IN  (IF n < 0 THEN 0 - thousandths ELSE thousandths)
        * (ScoreScale \div SimilarityStep)

\* normalize_vector applied to a vector that is normalized already
Renormalize(nv) == normalize_vector(nv.dir)

\* variant of FindSimilar without the min_similarity filter
FindSimilar_NoThreshold(embeddings, normalized_query, top_k, min_similarity) ==
    IF DOMAIN embeddings = {} THEN [outcome |-> "ok", results |-> {<< >>}]
    ELSE IF \E k \in DOMAIN embeddings :
                VecLen(embeddings[k]) # VecLen(normalized_query)
    THEN [outcome |-> "panic", results |-> {}]
    ELSE LET similarity == [k \in DOMAIN embeddings |->
                               cosine_similarity(normalized_query, embeddings[k])]
             kept == DOMAIN embeddings
             keptSim == [k \in kept |-> similarity[k]]
         IN  [outcome |-> "ok",
              results |->
                 {Truncate([i \in 1..Len(o) |->
                               [document_id |-> o[i], similarity |-> keptSim[o[i]]]],
                           top_k) : o \in SortedOrders(kept, keptSim)}]

\* the core of find_visual_similar and find_text_similar over one embedding
\* map: "panic" when cosine_similarity meets a stored vector of another
\* length, else every list the sort can give to the map's iteration order
FindSimilar(embeddings, normalized_query, top_k, min_similarity) ==
    IF DOMAIN embeddings = {} THEN [outcome |-> "ok", results |-> {<< >>}]
    ELSE IF \E k \in DOMAIN embeddings :
                VecLen(embeddings[k]) # VecLen(normalized_query)
    THEN [outcome |-> "panic", results |-> {}]
    ELSE LET similarity == [k \in DOMAIN embeddings |->
                               cosine_similarity(normalized_query, embeddings[k])]
             kept == {k \in DOMAIN embeddings : similarity[k] >= min_similarity}
             keptSim == [k \in kept |-> similarity[k]]
         IN  [outcome |-> "ok",
              results |->
                 {Truncate([i \in 1..Len(o) |->
                               [document_id |-> o[i], similarity |-> keptSim[o[i]]]],
                           top_k) : o \in SortedOrders(kept, keptSim)}]

find_visual_similar(V, query_embedding, top_k, min_similarity) ==
    FindSimilar(V.visual_embeddings, normalize_vector(query_embedding),
                top_k, min_similarity)

find_text_similar(V, query_embedding, top_k, min_similarity) ==
    FindSimilar(V.text_embeddings, normalize_vector(query_embedding),
                top_k, min_similarity)

RECURSIVE Retain_KeepsAll(_, _, _)
\* variant of Retain that leaves the query document in the list
Retain_KeepsAll(results, doc_id, i) ==
    IF i > Len(results) THEN << >>
    ELSE << results[i] >> \o Retain_KeepsAll(results, doc_id, i + 1)

RECURSIVE Retain(_, _, _)
\* results.retain(|m| m.document_id != *doc_id)
Retain(results, doc_id, i) ==
    IF i > Len(results) THEN << >>
    ELSE (IF results[i].document_id # doc_id THEN << results[i] >> ELSE << >>)
         \o Retain(results, doc_id, i + 1)

\* embedding_type is "Visual" or "Text"
find_similar_to_document(V, doc_id, embedding_type, top_k, min_similarity) ==
    LET embeddings == IF embedding_type = "Visual" THEN V.visual_embeddings
                      ELSE V.text_embeddings
    IN  IF doc_id \notin DOMAIN embeddings
        THEN [outcome |-> "DocumentNotFound", results |-> {}]
        ELSE LET r == FindSimilar(embeddings, Renormalize(embeddings[doc_id]),
                                  top_k + 1, min_similarity)
             IN  [outcome |-> r.outcome,
                  results |-> {Truncate(Retain(found, doc_id, 1), top_k) :
                                   found \in r.results}]

VectorStats(V) ==
    [visual_embeddings_count |-> Cardinality(DOMAIN V.visual_embeddings),
     text_embeddings_count |-> Cardinality(DOMAIN V.text_embeddings),
     visual_dimension |-> V.visual_dim,
     text_dimension |-> V.text_dim]

(***************************************************************************)
(* The durable store (sled) and serde_json.                                *)
(***************************************************************************)
\* serde_json::to_vec of a document: the stored bytes
to_vec(d) == [valid |-> TRUE, doc |-> d]

\* serde_json::from_slice::<AssetDocument>: None when the bytes do not parse
from_slice(bytes) == IF bytes.valid THEN Some(bytes.doc) ELSE None

RECURSIVE KeyOrder(_)
\* sled iterates in ascending key order
KeyOrder(keys) ==
    IF keys = {} THEN << >>
    ELSE LET k == CHOOSE x \in keys : \A y \in keys : x <= y
         IN  << k >> \o KeyOrder(keys \ {k})

\* the documents a full scan recovers, in key order; entries that do not
\* deserialize are skipped
ScanDocuments(store) ==
    LET order == KeyOrder(DOMAIN store)
        readable(k) == IsSome(from_slice(store[k]))
        keys == SelectSeq(order, readable)
    IN  [i \in 1..Len(keys) |-> from_slice(store[keys[i]])[1]]

\* a lookup that takes the first persisted document, whatever its asset id
find_document_by_asset_id_AnyAsset(store, asset_id) ==
    LET documents == ScanDocuments(store)
    IN  IF Len(documents) = 0 THEN None ELSE Some(documents[1])

find_document_by_asset_id(store, asset_id) ==
    LET documents == ScanDocuments(store)
        hits == {i \in 1..Len(documents) : documents[i].asset_id = asset_id}
    IN  IF hits = {} THEN None
        ELSE Some(documents[CHOOSE i \in hits : \A j \in hits : i <= j])

get_document(store, doc_id) ==
    IF doc_id \in DOMAIN store THEN from_slice(store[doc_id]) ELSE None

RECURSIVE AddAllDocuments(_, _, _)
AddAllDocuments(T, documents, i) ==
    IF i > Len(documents) THEN T
    ELSE AddAllDocuments(TextAddDocument(T, documents[i]), documents, i + 1)

\* reload_from_storage on the given in-memory structures
reload_from_storage(T, V, store) ==
    LET documents == ScanDocuments(store)
    IN  [text |-> AddAllDocuments(T, documents, 1),
         vectors |-> load_from_documents(V, documents, 1).store]

(***************************************************************************)
(* Inputs.                                                                 *)
(***************************************************************************)
AssetA ==
    [id |-> "a1", filename |-> << "A", "b", ".", "c" >>, asset_type |-> "Image",
     tags |-> << >>, transcription |-> None, dimensions |-> None,
     embedding |-> None, created_recently |-> TRUE]

AssetB ==
    [id |-> "a2", filename |-> << "c", "d", " ", "x" >>, asset_type |-> "Image",
     tags |-> << << "a", "b", "c" >> >>, transcription |-> None,
     dimensions |-> Some(<< 2, 3 >>),
     embedding |-> Some(<< 1, 1, 1 >>), created_recently |-> FALSE]

Assets == {AssetA, AssetB}

AssetIds == {a.id : a \in Assets}

\* what the AI collaborators deliver to update_with_ai_results
AiTagsCaption ==
    [tags |-> Some(<< << "c", "d" >>, << "A", "b" >> >>),
     caption |-> Some(<< "a", " ", "C", "d", "!" >>),
     transcription |-> None,
     visual_embedding |-> Some(<< 3, 4 >>), text_embedding |-> Some(<< 1, 0 >>)]

AiTranscript ==
    [tags |-> None, caption |-> None,
     transcription |-> Some(<< "a", "b" >>),
     visual_embedding |-> Some(<< 0, 2 >>),
     text_embedding |-> Some(<< 1, 1, 1 >>)]

AiResults == {AiTagsCaption, AiTranscript}

\* the search calls made: a query and max_results
SearchCalls ==
    { << << "a", "b", "c" >>, 1 >>, << << "a", "b", "c" >>, 2 >>,
      << << "C", "d", " ", "a", "b" >>, 2 >>,
      << << "x" >>, 2 >>, << << "!", "!" >>, 1 >> }

(***************************************************************************)
(* State.                                                                  *)
(***************************************************************************)
VARIABLES
    term_index,         \* TextIndex.term_index
    document_terms,     \* TextIndex.document_terms
    visual_embeddings,  \* VectorStore.visual_embeddings
    text_embeddings,    \* VectorStore.text_embeddings
    visual_dim,         \* VectorStore.visual_dim
    text_dim,           \* VectorStore.text_dim
    doc_store,          \* IndexService.doc_store
    pending,            \* the update_with_ai_results call holding the lock
    removed_ok,         \* assets removed with Ok and not indexed since
    faults,             \* how many durable-store operations have failed
    ret                 \* the last completed call and what it returned

vars == << term_index, document_terms, visual_embeddings, text_embeddings,
           visual_dim, text_dim, doc_store, pending, removed_ok, faults, ret >>

textVars == << term_index, document_terms >>

vectorVars == << visual_embeddings, text_embeddings, visual_dim, text_dim >>

TI == [term_index |-> term_index, document_terms |-> document_terms]

VS == [visual_embeddings |-> visual_embeddings,
       text_embeddings |-> text_embeddings,
       visual_dim |-> visual_dim, text_dim |-> text_dim]

SetTI(T) ==
    /\ term_index' = T.term_index
    /\ document_terms' = T.document_terms

SetVS(V) ==
    /\ visual_embeddings' = V.visual_embeddings
    /\ text_embeddings' = V.text_embeddings
    /\ visual_dim' = V.visual_dim
    /\ text_dim' = V.text_dim

Returned(op, arg, ok, err, value) ==
    [op |-> op, arg |-> arg, ok |-> ok, err |-> err, value |-> value]

\* TextIndex::new, VectorStore::new, a fresh sled database
Init ==
    /\ term_index = EmptyMap
    /\ document_terms = EmptyMap
    /\ visual_embeddings = EmptyMap
    /\ text_embeddings = EmptyMap
    /\ visual_dim = None
    /\ text_dim = None
    /\ doc_store = EmptyMap
    /\ pending = None
    /\ removed_ok = {}
    /\ faults = 0
    /\ ret = Returned("new", "", TRUE, "", << >>)

(***************************************************************************)
(* The library level: TextIndex and VectorStore called directly.           *)
(***************************************************************************)
\* update_with_ai_results, lines 118-128: the text results applied to the
\* document
ApplyTextResults(d, results) ==
    LET d1 == IF IsSome(results.tags) THEN add_ai_tags(d, results.tags[1]) ELSE d
        d2 == IF IsSome(results.caption) THEN set_ai_caption(d1, results.caption[1])
              ELSE d1
    IN  IF IsSome(results.transcription)
        THEN set_transcription(d2, results.transcription[1]) ELSE d2

ApplyEmbeddings(d, results) ==
    LET d1 == IF IsSome(results.visual_embedding)
              THEN set_visual_embedding(d, results.visual_embedding[1]) ELSE d
    IN  IF IsSome(results.text_embedding)
        THEN set_text_embedding(d1, results.text_embedding[1]) ELSE d1

\* the documents handed to the library
DocOf(asset, results, id) ==
    ApplyEmbeddings(ApplyTextResults(from_asset(asset, id), results), results)

SampleDocuments ==
    {from_asset(a, id) : a \in Assets, id \in DocIds}
    \cup {DocOf(AssetA, AiTagsCaption, id) : id \in DocIds}

\* the document lists handed to load_from_documents
LoadBatches ==
    { << from_asset(AssetB, 1), DocOf(AssetA, AiTagsCaption, MaxDocs) >>,
      << DocOf(AssetA, AiTagsCaption, 1), DocOf(AssetA, AiTranscript, MaxDocs) >>,
      << DocOf(AssetA, AiTranscript, MaxDocs), DocOf(AssetB, AiTagsCaption, 1) >> }

SampleVectors == { << 3, 4 >>, << 0, 2 >>, << 1, 1, 1 >> }

SampleTextVectors == { << 1, 0 >>, << 1, 1, 1 >> }

LibFrame == UNCHANGED << doc_store, pending, removed_ok, faults >>

\* what a map held for a key before the call
Previous(m, k) == IF k \in DOMAIN m THEN Some(m[k]) ELSE None

TextAdd(d) ==
    /\ SetTI(TextAddDocument(TI, d))
    /\ ret' = Returned("TextIndex.add_document", d.id, TRUE, "",
                       [document |-> d,
                        previous |-> Previous(document_terms, d.id)])
    /\ UNCHANGED vectorVars
    /\ LibFrame

TextRemove(doc_id) ==
    /\ SetTI(TextRemoveDocument(TI, doc_id))
    /\ ret' = Returned("TextIndex.remove_document", doc_id, TRUE, "",
                       [previous |-> Previous(document_terms, doc_id)])
    /\ UNCHANGED vectorVars
    /\ LibFrame

TextSearchCall(query, max_results) ==
    /\ \E found \in TextSearch(TI, query, max_results) :
           ret' = Returned("TextIndex.search", query, TRUE, "", found)
    /\ UNCHANGED << textVars, vectorVars >>
    /\ LibFrame

TextClear ==
    /\ SetTI(EmptyTextIndex)
    /\ ret' = Returned("TextIndex.clear", "", TRUE, "", << >>)
    /\ UNCHANGED vectorVars
    /\ LibFrame

VectorAddVisual(doc_id, embedding) ==
    LET r == add_visual_embedding(VS, doc_id, embedding)
    IN  /\ SetVS(r.store)
        /\ ret' = Returned("VectorStore.add_visual_embedding", doc_id, r.ok,
                           IF r.ok THEN "" ELSE "VectorError",
                           [embedding |-> embedding,
                            previous |-> Previous(visual_embeddings, doc_id)])
        /\ UNCHANGED textVars
        /\ LibFrame

VectorAddText(doc_id, embedding) ==
    LET r == add_text_embedding(VS, doc_id, embedding)
    IN  /\ SetVS(r.store)
        /\ ret' = Returned("VectorStore.add_text_embedding", doc_id, r.ok,
                           IF r.ok THEN "" ELSE "VectorError",
                           [embedding |-> embedding,
                            previous |-> Previous(text_embeddings, doc_id)])
        /\ UNCHANGED textVars
        /\ LibFrame

VectorRemove(doc_id) ==
    /\ SetVS(VectorRemoveDocument(VS, doc_id))
    /\ ret' = Returned("VectorStore.remove_document", doc_id, TRUE, "",
                       [previous |-> Previous(visual_embeddings, doc_id)
                                     \o Previous(text_embeddings, doc_id)])
    /\ UNCHANGED textVars
    /\ LibFrame

VectorClear ==
    /\ SetVS(EmptyVectorStore)
    /\ ret' = Returned("VectorStore.clear", "", TRUE, "", << >>)
    /\ UNCHANGED textVars
    /\ LibFrame

VectorLoad(documents) ==
    LET r == load_from_documents(VS, documents, 1)
    IN  /\ SetVS(r.store)
        /\ ret' = Returned("VectorStore.load_from_documents", "", r.ok,
                           IF r.ok THEN "" ELSE "VectorError", << >>)
        /\ UNCHANGED textVars
        /\ LibFrame

NextText ==
    \/ \E d \in SampleDocuments : TextAdd(d)
    \/ \E id \in DocIds : TextRemove(id)
    \/ \E c \in SearchCalls : TextSearchCall(c[1], c[2])
    \/ TextClear

NextVector ==
    \/ \E id \in DocIds, v \in SampleVectors : VectorAddVisual(id, v)
    \/ \E id \in DocIds, v \in SampleTextVectors : VectorAddText(id, v)
    \/ \E id \in DocIds : VectorRemove(id)
    \/ VectorClear
    \/ \E documents \in LoadBatches : VectorLoad(documents)

\* IndexConfig::default().min_similarity, 0.7
MinSimilarity == 700000

\* the similarity searches made: query_embedding, top_k, min_similarity
VectorSearchCalls ==
    { << << 3, 4 >>, 1, MinSimilarity >>, << << 3, 4 >>, 2, 0 >>,
      << << 1, 0 >>, 2, MinSimilarity >>, << << 1, 0 >>, 1, 0 >>,
      << << 1, 1, 1 >>, 2, MinSimilarity >> }

\* top_k and min_similarity of the find_similar_to_document calls made
SimilarToCalls == { << 1, MinSimilarity >>, << 1, 0 >>, << 2, MinSimilarity >> }

\* the vector store alone is exercised with one document more
VectorDocIds == 1..(MaxDocs + 1)

EmbeddingTypes == {"Visual", "Text"}

\* what a similarity search returned: Ok with a list, an error, or a panic
SearchReturned(op, arg, outcome, value) ==
    Returned(op, arg, outcome = "ok", IF outcome = "ok" THEN "" ELSE outcome, value)

VectorFindVisual(query_embedding, top_k, min_similarity) ==
    LET r == find_visual_similar(VS, query_embedding, top_k, min_similarity)
        call == [top_k |-> top_k, min_similarity |-> min_similarity]
    IN  /\ IF r.outcome = "ok"
           THEN \E found \in r.results :
                    ret' = SearchReturned("VectorStore.find_visual_similar",
                               query_embedding, "ok",
                               [call |-> call, results |-> found])
           ELSE ret' = SearchReturned("VectorStore.find_visual_similar",
                           query_embedding, r.outcome,
                           [call |-> call, results |-> << >>])
        /\ UNCHANGED << textVars, vectorVars >>
        /\ LibFrame

VectorFindText(query_embedding, top_k, min_similarity) ==
    LET r == find_text_similar(VS, query_embedding, top_k, min_similarity)
        call == [top_k |-> top_k, min_similarity |-> min_similarity]
    IN  /\ IF r.outcome = "ok"
           THEN \E found \in r.results :
                    ret' = SearchReturned("VectorStore.find_text_similar",
                               query_embedding, "ok",
                               [call |-> call, results |-> found])
           ELSE ret' = SearchReturned("VectorStore.find_text_similar",
                           query_embedding, r.outcome,
                           [call |-> call, results |-> << >>])
        /\ UNCHANGED << textVars, vectorVars >>
        /\ LibFrame

VectorFindSimilarTo(doc_id, embedding_type, top_k, min_similarity) ==
    LET r == find_similar_to_document(VS, doc_id, embedding_type, top_k,
                                      min_similarity)
        call == [embedding_type |-> embedding_type, top_k |-> top_k,
                 min_similarity |-> min_similarity]
    IN  /\ IF r.outcome = "ok"
           THEN \E found \in r.results :
                    ret' = SearchReturned("VectorStore.find_similar_to_document",
                               doc_id, "ok", [call |-> call, results |-> found])
           ELSE ret' = SearchReturned("VectorStore.find_similar_to_document",
                           doc_id, r.outcome,
                           [call |-> call, results |-> << >>])
        /\ UNCHANGED << textVars, vectorVars >>
        /\ LibFrame

NextVectorQuery ==
    \/ \E c \in VectorSearchCalls : VectorFindVisual(c[1], c[2], c[3])
    \/ \E c \in VectorSearchCalls : VectorFindText(c[1], c[2], c[3])
    \/ \E id \in DocIds, t \in EmbeddingTypes, c \in SimilarToCalls :
           VectorFindSimilarTo(id, t, c[1], c[2])

\* find_similar_to_document over a store whose visual kind holds up to
\* MaxDocs + 1 documents
NextSimilar ==
    \/ \E id \in VectorDocIds, v \in SampleVectors : VectorAddVisual(id, v)
    \/ \E id \in DocIds, v \in SampleTextVectors : VectorAddText(id, v)
    \/ \E id \in VectorDocIds, t \in EmbeddingTypes, c \in SimilarToCalls :
           VectorFindSimilarTo(id, t, c[1], c[2])

NextLib == NextText \/ NextVector

\* the text index alone, the vector store alone, and both
SpecText == Init /\ [][NextText]_vars

SpecVector == Init /\ [][NextVector \/ NextVectorQuery]_vars

SpecSimilar == Init /\ [][NextSimilar]_vars

SpecLib == Init /\ [][NextLib]_vars

(***************************************************************************)
(* The index service (lib.rs).  Callers hold the application mutex for a   *)
(* whole call, and a writer has exclusive access to the service: no call   *)
(* starts while update_with_ai_results is between two of its steps.        *)
(***************************************************************************)
PostedIds(T) == UNION {DOMAIN T.term_index[t] : t \in DOMAIN T.term_index}

\* Uuid::new_v4: an id that names nothing yet
FreshIds ==
    DocIds \ (DOMAIN doc_store \cup DOMAIN document_terms \cup PostedIds(TI)
              \cup DOMAIN visual_embeddings \cup DOMAIN text_embeddings)

Unlocked == pending = None

IndexAsset(asset) ==
    /\ Unlocked
    /\ \E new_id \in FreshIds :
           LET document == calculate_quality_score(from_asset(asset, new_id))
           IN  /\ SetTI(TextAddDocument(TI, document))
               /\ doc_store' = MapInsert(doc_store, document.id, to_vec(document))
    /\ removed_ok' = removed_ok \ {asset.id}
    /\ ret' = Returned("index_asset", asset.id, TRUE, "", << >>)
    /\ UNCHANGED << vectorVars, pending >>
    /\ UNCHANGED faults

\* lines 114-128: the lookup, and the text results applied to the local copy
UpdateBegin(asset_id, results) ==
    /\ Unlocked
    /\ LET found == find_document_by_asset_id(doc_store, asset_id)
       IN  IF IsSome(found)
           THEN /\ pending' = Some([asset_id |-> asset_id, results |-> results,
                                    document |-> ApplyTextResults(found[1], results),
                                    pc |-> "visual"])
                /\ UNCHANGED ret
           ELSE /\ ret' = Returned("update_with_ai_results", asset_id, FALSE,
                                   "DocumentNotFound", << >>)
                /\ UNCHANGED pending
    /\ UNCHANGED << textVars, vectorVars, doc_store, removed_ok >>
    /\ UNCHANGED faults

\* lines 130-133
UpdateVisual ==
    /\ IsSome(pending) /\ pending[1].pc = "visual"
    /\ LET p == pending[1]
           given == IsSome(p.results.visual_embedding)
           r == IF given
                THEN add_visual_embedding(VS, p.document.id,
                                          p.results.visual_embedding[1])
                ELSE [ok |-> TRUE, store |-> VS]
       IN  /\ SetVS(r.store)
           /\ IF r.ok
              THEN /\ pending' = Some([p EXCEPT
                          !.document = IF given
                                       THEN set_visual_embedding(@,
                                                p.results.visual_embedding[1])
                                       ELSE @,
                          !.pc = "text"])
                   /\ UNCHANGED ret
              ELSE /\ pending' = None
                   /\ ret' = Returned("update_with_ai_results", p.asset_id, FALSE,
                                      "VectorError", << >>)
    /\ UNCHANGED << textVars, doc_store, removed_ok >>
    /\ UNCHANGED faults

\* lines 135-138
UpdateText ==
    /\ IsSome(pending) /\ pending[1].pc = "text"
    /\ LET p == pending[1]
           given == IsSome(p.results.text_embedding)
           r == IF given
                THEN add_text_embedding(VS, p.document.id,
                                        p.results.text_embedding[1])
                ELSE [ok |-> TRUE, store |-> VS]
       IN  /\ SetVS(r.store)
           /\ IF r.ok
              THEN /\ pending' = Some([p EXCEPT
                          !.document = IF given
                                       THEN set_text_embedding(@,
                                                p.results.text_embedding[1])
                                       ELSE @,
                          !.pc = "index"])
                   /\ UNCHANGED ret
              ELSE /\ pending' = None
                   /\ ret' = Returned("update_with_ai_results", p.asset_id, FALSE,
                                      "VectorError", << >>)
    /\ UNCHANGED << textVars, doc_store, removed_ok >>
    /\ UNCHANGED faults

\* lines 140-144
UpdateIndex ==
    /\ IsSome(pending) /\ pending[1].pc = "index"
    /\ LET p == pending[1]
           document == calculate_quality_score(p.document)
       IN  /\ SetTI(TextAddDocument(TI, document))
           /\ pending' = Some([p EXCEPT !.document = document, !.pc = "persist"])
    /\ UNCHANGED << vectorVars, doc_store, removed_ok, ret >>
    /\ UNCHANGED faults

\* lines 146-152
UpdatePersist ==
    /\ IsSome(pending) /\ pending[1].pc = "persist"
    /\ LET p == pending[1]
       IN  /\ doc_store' = MapInsert(doc_store, p.document.id, to_vec(p.document))
           /\ ret' = Returned("update_with_ai_results", p.asset_id, TRUE, "", << >>)
    /\ pending' = None
    /\ UNCHANGED << textVars, vectorVars, removed_ok >>
    /\ UNCHANGED faults

\* the document a call found by its asset id, as the call's log names it
Target(found) == IF IsSome(found) THEN Some(found[1].id) ELSE None

\* remove_asset without the removal from the text index
RemoveAsset_KeepsPostings(asset_id) ==
    /\ Unlocked
    /\ LET found == find_document_by_asset_id(doc_store, asset_id)
       IN  /\ IF IsSome(found)
              THEN /\ SetVS(VectorRemoveDocument(VS, found[1].id))
                   /\ doc_store' = MapRemove(doc_store, found[1].id)
              ELSE UNCHANGED << vectorVars, doc_store >>
           /\ ret' = Returned("remove_asset", asset_id, TRUE, "", Target(found))
    /\ removed_ok' = removed_ok \cup {asset_id}
    /\ UNCHANGED << textVars, pending, faults >>

RemoveAsset(asset_id) ==
    /\ Unlocked
    /\ LET found == find_document_by_asset_id(doc_store, asset_id)
       IN  /\ IF IsSome(found)
              THEN /\ SetTI(TextRemoveDocument(TI, found[1].id))
                   /\ SetVS(VectorRemoveDocument(VS, found[1].id))
                   /\ doc_store' = MapRemove(doc_store, found[1].id)
              ELSE UNCHANGED << textVars, vectorVars, doc_store >>
           /\ ret' = Returned("remove_asset", asset_id, TRUE, "", Target(found))
    /\ removed_ok' = removed_ok \cup {asset_id}
    /\ UNCHANGED pending
    /\ UNCHANGED faults

\* a String built from pieces, kept as the sequence of its pieces
RECURSIVE JoinPieces(_, _, _)
JoinPieces(parts, sep, i) ==
    IF i > Len(parts) THEN << >>
    ELSE (IF i > 1 THEN << sep >> ELSE << >>) \o << parts[i] >>
         \o JoinPieces(parts, sep, i + 1)

\* SearchResult::new
NewSearchResult(document, score) ==
    [document |-> document, score |-> score, text_score |-> 0, tag_score |-> 0,
     vector_score |-> 0, highlights |-> << >>, match_reason |-> << >>]

\* IndexService::search_text on one result of TextIndex::search: matches
\* whose document is not in the store are left out
RECURSIVE Hydrate(_, _, _)
Hydrate(store, found, i) ==
    IF i > Len(found) THEN << >>
    ELSE LET document == get_document(store, found[i].document_id)
             matches == found[i].matches
         IN  (IF IsSome(document)
              THEN << [NewSearchResult(document[1], found[i].score) EXCEPT
                         !.text_score = found[i].score,
                         !.match_reason =
                             << "Text match in: " >>
                             \o JoinPieces([k \in 1..Len(matches) |->
                                               matches[k].field_name], ", ", 1),
                         !.highlights =
                             [k \in 1..Len(matches) |->
                                 << matches[k].field_name, ": ",
                                    matches[k].match_text >>]] >>
              ELSE << >>)
             \o Hydrate(store, found, i + 1)

\* IndexConfig::default(): text_weight 1.0, tag_weight 1.5, vector_weight
\* 0.8, in tenths
TextWeight == 10

TagWeight == 15

VectorWeight == 8

WeightScale == 10

\* a weighted score without the quality bonus
calculate_weighted_score_NoQuality(r) ==
    [r EXCEPT !.score =
        (TextWeight * r.text_score + TagWeight * r.tag_score
         + VectorWeight * r.vector_score) \div WeightScale]

\* SearchResult::calculate_weighted_score: the weighted sum of the component
\* scores times the document's quality score
calculate_weighted_score(r) ==
    [r EXCEPT !.score =
        (((TextWeight * r.text_score + TagWeight * r.tag_score
           + VectorWeight * r.vector_score) \div WeightScale)
         * r.document.quality_score) \div QualityOne]

\* the loop of search_visual_similar and of find_similar over the matches of
\* the vector store: matches whose document is not in the store are left out
RECURSIVE HydrateVector(_, _, _, _)
HydrateVector(store, found, reason, i) ==
    IF i > Len(found) THEN << >>
    ELSE LET document == get_document(store, found[i].document_id)
         IN  (IF IsSome(document)
              THEN << [NewSearchResult(document[1], found[i].similarity) EXCEPT
                         !.vector_score = found[i].similarity,
                         !.match_reason = reason] >>
              ELSE << >>)
             \o HydrateVector(store, found, reason, i + 1)

\* IndexService::search_text: every list it may return
search_text(T, store, query, max_results) ==
    {Hydrate(store, found, 1) : found \in TextSearch(T, query, max_results)}

\* IndexService::search_visual_similar
search_visual_similar(V, store, query_embedding, max_results) ==
    LET r == find_visual_similar(V, query_embedding, max_results, MinSimilarity)
    IN  [outcome |-> r.outcome,
         results |-> {HydrateVector(store, found, << "Visual similarity" >>, 1) :
                          found \in r.results}]

\* IndexService::find_similar
find_similar(V, store, asset_id, embedding_type, max_results) ==
    LET document == find_document_by_asset_id(store, asset_id)
    IN  IF ~IsSome(document)
        THEN [outcome |-> "DocumentNotFound", results |-> {}]
        ELSE LET r == find_similar_to_document(V, document[1].id, embedding_type,
                                               max_results, MinSimilarity)
             IN  [outcome |-> r.outcome,
                  results |->
                     {HydrateVector(store, found,
                                    << "Similar to asset ", asset_id >>, 1) :
                          found \in r.results}]

ResultIds(results) == {results[i].document.id : i \in 1..Len(results)}

ResultOf(results, id) ==
    results[CHOOSE i \in 1..Len(results) : results[i].document.id = id]

\* query.trim().is_empty()
IsBlank(query) == \A i \in 1..Len(query) : IsWhitespace(query[i])

\* a merge in which a vector result replaces the text result of its document
MergeResults_VectorReplaces(text_results, vector_results) ==
    LET text_ids == ResultIds(text_results)
        vector_ids == ResultIds(vector_results)
    IN  [id \in text_ids \cup vector_ids |->
            IF id \in vector_ids
            THEN calculate_weighted_score(ResultOf(vector_results, id))
            ELSE calculate_weighted_score(ResultOf(text_results, id))]

\* all_results of search_hybrid after both loops, as a map from document id
MergeResults(text_results, vector_results) ==
    LET text_ids == ResultIds(text_results)
        vector_ids == ResultIds(vector_results)
    IN  [id \in text_ids \cup vector_ids |->
            IF id \in text_ids
            THEN LET existing == calculate_weighted_score(
                                     ResultOf(text_results, id))
                 IN  IF id \in vector_ids
                     THEN LET result == calculate_weighted_score(
                                            ResultOf(vector_results, id))
                          IN  [existing EXCEPT
                                 !.vector_score = result.vector_score,
                                 !.score =
                                     (existing.text_score * TextWeight
                                      + result.vector_score * VectorWeight)
                                     \div WeightScale,
                                 !.match_reason =
                                     @ \o << " + Visual similarity" >>]
                     ELSE existing
            ELSE calculate_weighted_score(ResultOf(vector_results, id))]

\* the values of the map in any order, truncated without the sort
RankResults_Unsorted(all_results, max_results) ==
    LET same == [id \in DOMAIN all_results |-> 0]
    IN  {Truncate([i \in 1..Len(o) |-> all_results[o[i]]], max_results) :
             o \in SortedOrders(DOMAIN all_results, same)}

\* the last lines of search_hybrid: the values of the map in any order,
\* sorted by score, truncated
RankResults(all_results, max_results) ==
    LET score == [id \in DOMAIN all_results |-> all_results[id].score]
    IN  {Truncate([i \in 1..Len(o) |-> all_results[o[i]]], max_results) :
             o \in SortedOrders(DOMAIN all_results, score)}

\* IndexService::search_hybrid: the outcome and, for every pair of lists the
\* two searches may give, the lists the merge may return
search_hybrid(T, V, store, query, query_embedding, max_results) ==
    LET text_runs == IF IsBlank(query) THEN {<< >>}
                     ELSE search_text(T, store, query, max_results * 2)
        vector_run == IF IsSome(query_embedding)
                      THEN search_visual_similar(V, store, query_embedding[1],
                                                 max_results * 2)
                      ELSE [outcome |-> "ok", results |-> {<< >>}]
    IN  [outcome |-> vector_run.outcome,
         runs |-> UNION {{[text_results |-> t, vector_results |-> v,
                           results |-> r] :
                              r \in RankResults(MergeResults(t, v), max_results)} :
                         t \in text_runs, v \in vector_run.results}]

SearchText(query, max_results) ==
    /\ Unlocked
    /\ \E found \in TextSearch(TI, query, max_results) :
           ret' = Returned("search_text", query, TRUE, "",
                           Hydrate(doc_store, found, 1))
    /\ UNCHANGED << textVars, vectorVars, doc_store, pending, removed_ok >>
    /\ UNCHANGED faults

\* the calls of search_hybrid made: query, query_embedding, max_results
HybridCalls ==
    { << << "a", "b", "c" >>, Some(<< 3, 4 >>), 1 >>,
      << << "a", "b", "c" >>, Some(<< 3, 4 >>), 2 >>,
      << << "C", "d", " ", "a", "b" >>, None, 2 >>,
      << << " " >>, Some(<< 0, 2 >>), 2 >>,
      << << "c", "d" >>, Some(<< 3, 4 >>), 2 >> }

\* the calls of search_visual_similar made: query_embedding, max_results
VisualCalls == { << << 3, 4 >>, 1 >>, << << 1, 0 >>, 2 >> }

ReadFrame ==
    /\ UNCHANGED << textVars, vectorVars, doc_store, pending, removed_ok >>
    /\ UNCHANGED faults

SearchVisualSimilar(query_embedding, max_results) ==
    /\ Unlocked
    /\ LET r == search_visual_similar(VS, doc_store, query_embedding, max_results)
           call == [max_results |-> max_results]
       IN  IF r.outcome = "ok"
           THEN \E results \in r.results :
                    ret' = SearchReturned("search_visual_similar", query_embedding,
                               "ok", [call |-> call, results |-> results])
           ELSE ret' = SearchReturned("search_visual_similar", query_embedding,
                           r.outcome, [call |-> call, results |-> << >>])
    /\ ReadFrame

FindSimilarAsset(asset_id, embedding_type, max_results) ==
    /\ Unlocked
    /\ LET r == find_similar(VS, doc_store, asset_id, embedding_type, max_results)
           call == [embedding_type |-> embedding_type,
                    max_results |-> max_results]
       IN  IF r.outcome = "ok"
           THEN \E results \in r.results :
                    ret' = SearchReturned("find_similar", asset_id, "ok",
                               [call |-> call, results |-> results])
           ELSE ret' = SearchReturned("find_similar", asset_id, r.outcome,
                           [call |-> call, results |-> << >>])
    /\ ReadFrame

SearchHybrid(query, query_embedding, max_results) ==
    /\ Unlocked
    /\ LET r == search_hybrid(TI, VS, doc_store, query, query_embedding,
                              max_results)
           call == [query_embedding |-> query_embedding,
                    max_results |-> max_results]
       IN  IF r.outcome = "ok"
           THEN \E run \in r.runs :
                    ret' = SearchReturned("search_hybrid", query, "ok",
                               [call |-> call,
                                text_results |-> run.text_results,
                                vector_results |-> run.vector_results,
                                results |-> run.results])
           ELSE ret' = SearchReturned("search_hybrid", query, r.outcome,
                           [call |-> call, text_results |-> << >>,
                            vector_results |-> << >>, results |-> << >>])
    /\ ReadFrame

GetStats ==
    /\ Unlocked
    /\ ret' = Returned("get_stats", "", TRUE, "",
                       [total_documents |-> TextStats(TI).total_documents,
                        total_terms |-> TextStats(TI).total_terms,
                        visual_embeddings |-> VectorStats(VS).visual_embeddings_count,
                        text_embeddings |-> VectorStats(VS).text_embeddings_count,
                        visual_dimension |-> VectorStats(VS).visual_dimension,
                        text_dimension |-> VectorStats(VS).text_dimension])
    /\ UNCHANGED << textVars, vectorVars, doc_store, pending, removed_ok >>
    /\ UNCHANGED faults

\* variant of clear that leaves the vector store as it is
Clear_KeepsVectors ==
    /\ Unlocked
    /\ SetTI(EmptyTextIndex)
    /\ UNCHANGED vectorVars
    /\ doc_store' = EmptyMap
    /\ ret' = Returned("clear", "", TRUE, "", << >>)
    /\ UNCHANGED << pending, removed_ok >>
    /\ UNCHANGED faults

Clear ==
    /\ Unlocked
    /\ SetTI(EmptyTextIndex)
    /\ SetVS(EmptyVectorStore)
    /\ doc_store' = EmptyMap
    /\ ret' = Returned("clear", "", TRUE, "", << >>)
    /\ UNCHANGED << pending, removed_ok >>
    /\ UNCHANGED faults

\* the process ends and with_storage_dir opens the same database again
Restart ==
    /\ Unlocked
    /\ LET loaded == reload_from_storage(EmptyTextIndex, EmptyVectorStore, doc_store)
       IN  /\ SetTI(loaded.text)
           /\ SetVS(loaded.vectors)
    /\ ret' = Returned("new", "", TRUE, "", << >>)
    /\ UNCHANGED << doc_store, pending, removed_ok >>
    /\ UNCHANGED faults

\* the calls that write, with search_text and get_stats
NextCore ==
    \/ \E asset \in Assets : IndexAsset(asset)
    \/ \E a \in AssetIds, r \in AiResults : UpdateBegin(a, r)
    \/ UpdateVisual
    \/ UpdateText
    \/ UpdateIndex
    \/ UpdatePersist
    \/ \E a \in AssetIds : RemoveAsset(a)
    \/ \E c \in SearchCalls : SearchText(c[1], c[2])
    \/ GetStats
    \/ Clear
    \/ Restart

\* the similarity and hybrid searches
NextQuery ==
    \/ \E c \in VisualCalls : SearchVisualSimilar(c[1], c[2])
    \/ \E a \in AssetIds, t \in EmbeddingTypes :
           FindSimilarAsset(a, t, 1)
    \/ \E c \in HybridCalls : SearchHybrid(c[1], c[2], c[3])

Next == NextCore \/ NextQuery

Spec == Init /\ [][Next]_vars

(***************************************************************************)
(* The same service when operations of the durable store may fail with a   *)
(* DatabaseError.                                                          *)
(***************************************************************************)
\* index_asset when doc_store.insert fails (lines 94-95)
IndexAssetStoreFails(asset) ==
    /\ Unlocked
    /\ \E new_id \in FreshIds :
           LET document == calculate_quality_score(from_asset(asset, new_id))
           IN  SetTI(TextAddDocument(TI, document))
    /\ removed_ok' = removed_ok \ {asset.id}
    /\ ret' = Returned("index_asset", asset.id, FALSE, "DatabaseError", << >>)
    /\ UNCHANGED << vectorVars, doc_store, pending >>
    /\ faults < MaxFaults
    /\ faults' = faults + 1

\* update_with_ai_results when doc_store.insert fails (lines 148-149)
UpdatePersistStoreFails ==
    /\ IsSome(pending) /\ pending[1].pc = "persist"
    /\ ret' = Returned("update_with_ai_results", pending[1].asset_id, FALSE,
                       "DatabaseError", << >>)
    /\ pending' = None
    /\ UNCHANGED << textVars, vectorVars, doc_store, removed_ok >>
    /\ faults < MaxFaults
    /\ faults' = faults + 1

\* remove_asset when doc_store.remove fails (lines 168-169)
RemoveAssetStoreFails(asset_id) ==
    /\ Unlocked
    /\ LET found == find_document_by_asset_id(doc_store, asset_id)
       IN  /\ IsSome(found)
           /\ SetTI(TextRemoveDocument(TI, found[1].id))
           /\ SetVS(VectorRemoveDocument(VS, found[1].id))
           /\ ret' = Returned("remove_asset", asset_id, FALSE, "DatabaseError",
                              Target(found))
    /\ UNCHANGED << doc_store, pending, removed_ok >>
    /\ faults < MaxFaults
    /\ faults' = faults + 1

\* a call whose scan of the store fails: the iterator's error is returned
\* before anything else is done (lines 114, 160, 378-379)
ScanFails(op, asset_id) ==
    /\ Unlocked
    /\ ret' = Returned(op, asset_id, FALSE, "DatabaseError", << >>)
    /\ UNCHANGED << textVars, vectorVars, doc_store, pending, removed_ok >>
    /\ faults < MaxFaults
    /\ faults' = faults + 1

\* clear when doc_store.clear fails (lines 327-328)
ClearStoreFails ==
    /\ Unlocked
    /\ SetTI(EmptyTextIndex)
    /\ SetVS(EmptyVectorStore)
    /\ ret' = Returned("clear", "", FALSE, "DatabaseError", << >>)
    /\ UNCHANGED << doc_store, pending, removed_ok >>
    /\ faults < MaxFaults
    /\ faults' = faults + 1

NextFail ==
    \/ NextCore
    \/ \E asset \in Assets : IndexAssetStoreFails(asset)
    \/ UpdatePersistStoreFails
    \/ \E a \in AssetIds : RemoveAssetStoreFails(a)
    \/ \E a \in AssetIds, op \in {"update_with_ai_results", "remove_asset"} :
           ScanFails(op, a)
    \/ ClearStoreFails

SpecFail == Init /\ [][NextFail]_vars

(***************************************************************************)
(* The document model alone (document.rs): from_asset and the mutators of  *)
(* AssetDocument, applied to the document the last call returned.          *)
(***************************************************************************)
DocumentOps ==
    {"AssetDocument.from_asset", "AssetDocument.add_tags",
     "AssetDocument.add_ai_tags", "AssetDocument.set_transcription",
     "AssetDocument.set_ai_caption", "AssetDocument.set_visual_embedding",
     "AssetDocument.set_text_embedding"}

\* the tag lists, texts and embeddings handed to the mutators
SampleTags ==
    { << << "c", "d" >>, << "A", "b" >> >>, << << "a", "b", "c" >> >>,
      << << "x" >>, << "a", "b", "c" >>, << "x" >> >> }

SampleTexts == { << "a", "b" >>, << "a", " ", "C", "d", "!" >> }

HasDocument == ret.op \in DocumentOps

DocFrame ==
    UNCHANGED << textVars, vectorVars, doc_store, pending, removed_ok, faults >>

DocFromAsset(asset, new_id) ==
    /\ ret' = Returned("AssetDocument.from_asset", asset.id, TRUE, "",
                       from_asset(asset, new_id))
    /\ DocFrame

DocAddTags(tags) ==
    /\ HasDocument
    /\ ret' = Returned("AssetDocument.add_tags", ret.arg, TRUE, "",
                       add_tags(ret.value, tags))
    /\ DocFrame

DocAddAiTags(tags) ==
    /\ HasDocument
    /\ ret' = Returned("AssetDocument.add_ai_tags", ret.arg, TRUE, "",
                       add_ai_tags(ret.value, tags))
    /\ DocFrame

DocSetTranscription(transcription) ==
    /\ HasDocument
    /\ ret' = Returned("AssetDocument.set_transcription", ret.arg, TRUE, "",
                       set_transcription(ret.value, transcription))
    /\ DocFrame

DocSetAiCaption(caption) ==
    /\ HasDocument
    /\ ret' = Returned("AssetDocument.set_ai_caption", ret.arg, TRUE, "",
                       set_ai_caption(ret.value, caption))
    /\ DocFrame

DocSetVisualEmbedding(embedding) ==
    /\ HasDocument
    /\ ret' = Returned("AssetDocument.set_visual_embedding", ret.arg, TRUE, "",
                       set_visual_embedding(ret.value, embedding))
    /\ DocFrame

DocSetTextEmbedding(embedding) ==
    /\ HasDocument
    /\ ret' = Returned("AssetDocument.set_text_embedding", ret.arg, TRUE, "",
                       set_text_embedding(ret.value, embedding))
    /\ DocFrame

NextDoc ==
    \/ \E asset \in Assets : DocFromAsset(asset, 1)
    \/ \E tags \in SampleTags : DocAddTags(tags)
    \/ \E tags \in SampleTags : DocAddAiTags(tags)
    \/ \E text \in SampleTexts : DocSetTranscription(text)
    \/ \E text \in SampleTexts : DocSetAiCaption(text)
    \/ \E v \in SampleVectors : DocSetVisualEmbedding(v)
    \/ \E v \in SampleTextVectors : DocSetTextEmbedding(v)

SpecDoc == Init /\ [][NextDoc]_vars

\* a document and its two tag lists alone
NextTags ==
    \/ \E asset \in Assets : DocFromAsset(asset, 1)
    \/ \E tags \in SampleTags : DocAddTags(tags)
    \/ \E tags \in SampleTags : DocAddAiTags(tags)

SpecTags == Init /\ [][NextTags]_vars

(***************************************************************************)
(* The claims.                                                             *)
(***************************************************************************)
StoredDoc(k) == from_slice(doc_store[k])[1]

DocsOfAsset(a) == {k \in DOMAIN doc_store : StoredDoc(k).asset_id = a}

\* C1: after any sequence of index_asset, update_with_ai_results and
\* remove_asset calls the durable store and the text index hold at most one
\* document per asset id; indexing the same asset twice leaves exactly one.
C1_OneDocumentPerAsset ==
    \A a \in AssetIds :
        /\ Cardinality(DocsOfAsset(a)) <= 1
        /\ Cardinality(DocsOfAsset(a) \cap DOMAIN document_terms) <= 1

\* the postings the index holds for one document id: term -> occurrences
PostingsOf(T, doc_id) ==
    [t \in {u \in DOMAIN T.term_index : doc_id \in DOMAIN T.term_index[u]} |->
        T.term_index[t][doc_id]]

\* C2: after add_document(d) on an index that may already hold d.id with
\* other contents, the index holds for d.id exactly the postings and the
\* term set of d (none of the earlier call, none twice); after a successful
\* add of an embedding the map of that kind holds for the id the normalized
\* vector of this call.
C2_ReindexKeepsSecond ==
    /\ ret.op = "TextIndex.add_document" =>
           LET d == ret.value.document
               alone == TextAddDocument(EmptyTextIndex, d)
           IN  /\ PostingsOf(TI, d.id) = PostingsOf(alone, d.id)
               /\ d.id \in DOMAIN document_terms
               /\ document_terms[d.id] = alone.document_terms[d.id]
    /\ (ret.op = "VectorStore.add_visual_embedding" /\ ret.ok) =>
           /\ ret.arg \in DOMAIN visual_embeddings
           /\ visual_embeddings[ret.arg] = normalize_vector(ret.value.embedding)
    /\ (ret.op = "VectorStore.add_text_embedding" /\ ret.ok) =>
           /\ ret.arg \in DOMAIN text_embeddings
           /\ text_embeddings[ret.arg] = normalize_vector(ret.value.embedding)

\* C2 witness: add_document has replaced a document that had terms the new
\* one lacks
C2_Witness ==
    /\ ret.op = "TextIndex.add_document"
    /\ IsSome(ret.value.previous)
    /\ ret.value.previous[1] \ document_terms[ret.arg] # {}

\* the same for an embedding: an add has replaced another vector
C2_VectorReplaced ==
    /\ ret.op = "VectorStore.add_visual_embedding"
    /\ ret.ok
    /\ IsSome(ret.value.previous)
    /\ ret.value.previous[1] # visual_embeddings[ret.arg]

ReturnedIds(found) == {found[i].document_id : i \in 1..Len(found)}

\* C3: after TextIndex.remove_document(id) the id is in no posting map, not
\* in the reverse map and in no result of a search; after
\* VectorStore.remove_document(id) it is in neither embedding map; a search
\* returns only ids that have postings.
C3_RemovedIsGone ==
    /\ ret.op = "TextIndex.remove_document" =>
           /\ ret.arg \notin PostedIds(TI)
           /\ ret.arg \notin DOMAIN document_terms
           /\ \A c \in SearchCalls :
                  \A found \in TextSearch(TI, c[1], c[2]) :
                      ret.arg \notin ReturnedIds(found)
    /\ ret.op = "VectorStore.remove_document" =>
           /\ ret.arg \notin DOMAIN visual_embeddings
           /\ ret.arg \notin DOMAIN text_embeddings
    /\ ret.op = "TextIndex.search" =>
           ReturnedIds(ret.value) \subseteq PostedIds(TI) \cap DOMAIN document_terms

\* C3 witness: a document that had terms was removed from the text index
\* while another document that shares a term with it stays indexed
C3_Witness ==
    /\ ret.op = "TextIndex.remove_document"
    /\ IsSome(ret.value.previous)
    /\ ret.value.previous[1] \cap DOMAIN term_index # {}

\* C4: once remove_asset(a) has returned Ok, no search_text result carries a
\* document of asset a until a is indexed again.
C4_NoHitAfterRemove ==
    ret.op = "search_text" =>
        \A i \in 1..Len(ret.value) :
            ret.value[i].document.asset_id \notin removed_ok

\* C5: when no durable-store operation fails, after every completed call the
\* document ids of the text index are those of the durable store, and
\* get_stats().total_documents is the number of persisted documents.
C5_TextIndexMatchesStore ==
    Unlocked =>
        /\ DOMAIN document_terms = DOMAIN doc_store
        /\ ret.op = "get_stats" =>
               ret.value.total_documents = Cardinality(DOMAIN doc_store)

\* C5 witness: get_stats after a removal left one of two documents
C5_Witness ==
    /\ ret.op = "get_stats"
    /\ ret.value.total_documents = 1
    /\ removed_ok # {}
    /\ IsSome(visual_dim)

\* C6: after any sequence of successful calls, reload_from_storage on empty
\* structures over the current durable store gives the text index and the
\* vector store the live ones are: same postings, same ids per embedding
\* kind, same dimensions.
C6_ReloadEqualsLive ==
    Unlocked =>
        LET loaded == reload_from_storage(EmptyTextIndex, EmptyVectorStore,
                                          doc_store)
        IN  /\ loaded.text = TI
            /\ DOMAIN loaded.vectors.visual_embeddings = DOMAIN visual_embeddings
            /\ DOMAIN loaded.vectors.text_embeddings = DOMAIN text_embeddings
            /\ loaded.vectors.visual_dim = visual_dim
            /\ loaded.vectors.text_dim = text_dim

\* the vector store holds for a persisted document what that document says
EmbeddingsAsPersisted(k) ==
    /\ k \in DOMAIN visual_embeddings =>
           /\ IsSome(StoredDoc(k).visual_embedding)
           /\ visual_embeddings[k] =
                  normalize_vector(StoredDoc(k).visual_embedding[1])
    /\ k \in DOMAIN text_embeddings =>
           /\ IsSome(StoredDoc(k).text_embedding)
           /\ text_embeddings[k] =
                  normalize_vector(StoredDoc(k).text_embedding[1])

\* C7: whenever a search can run (no update holds the lock), it finds no
\* document whose embedding in the vector store is newer than its persisted
\* document and its postings: the embeddings of the store are those of the
\* persisted documents.
C7_NoMixedState ==
    Unlocked => \A k \in DOMAIN doc_store : EmbeddingsAsPersisted(k)

InAllThree(k) ==
    /\ k \in DOMAIN doc_store
    /\ k \in DOMAIN document_terms
    /\ IsSome(StoredDoc(k).visual_embedding) => k \in DOMAIN visual_embeddings
    /\ IsSome(StoredDoc(k).text_embedding) => k \in DOMAIN text_embeddings

InNone(k) ==
    /\ k \notin DOMAIN doc_store
    /\ k \notin DOMAIN document_terms
    /\ k \notin PostedIds(TI)
    /\ k \notin DOMAIN visual_embeddings
    /\ k \notin DOMAIN text_embeddings

\* C8: after remove_asset returns, with Ok or with an error, the document it
\* targeted is in all of the text index, the vector store and the durable
\* store, or in none of them.
C8_RemoveAllOrNothing ==
    (ret.op = "remove_asset" /\ IsSome(ret.value)) =>
        InAllThree(ret.value[1]) \/ InNone(ret.value[1])

\* C9: an add whose length differs from the dimension recorded for its kind
\* returns VectorError and changes nothing in the vector store.
C9_MismatchRejected ==
    [][ /\ \A id \in DocIds, v \in SampleVectors :
              (VectorAddVisual(id, v) /\ IsSome(visual_dim)
                   /\ Len(v) # visual_dim[1])
              => (~ret'.ok /\ ret'.err = "VectorError" /\ UNCHANGED vectorVars)
        /\ \A id \in DocIds, v \in SampleTextVectors :
              (VectorAddText(id, v) /\ IsSome(text_dim) /\ Len(v) # text_dim[1])
              => (~ret'.ok /\ ret'.err = "VectorError" /\ UNCHANGED vectorVars)
        /\ (ret'.op \in {"VectorStore.add_visual_embedding",
                         "VectorStore.add_text_embedding"} /\ ~ret'.ok)
              => UNCHANGED vectorVars ]_vars

\* C9 witness: an add was rejected while both kinds hold vectors
C9_Witness ==
    /\ ret.op = "VectorStore.add_visual_embedding"
    /\ ~ret.ok
    /\ ret.err = "VectorError"
    /\ visual_embeddings # EmptyMap
    /\ text_embeddings # EmptyMap

DimensionsConsistent ==
    /\ visual_embeddings # EmptyMap => IsSome(visual_dim)
    /\ text_embeddings # EmptyMap => IsSome(text_dim)
    /\ \A k \in DOMAIN visual_embeddings :
           VecLen(visual_embeddings[k]) = visual_dim[1]
    /\ \A k \in DOMAIN text_embeddings :
           VecLen(text_embeddings[k]) = text_dim[1]

AddOps ==
    {"VectorStore.add_visual_embedding", "VectorStore.add_text_embedding",
     "VectorStore.load_from_documents"}

\* C10: in every reachable state of the vector store a kind with vectors has
\* its dimension set and every vector of the kind has that length, and no add
\* changes a dimension that is set.
C10_DimensionInvariant ==
    /\ []DimensionsConsistent
    /\ [][ ret'.op \in AddOps =>
              /\ IsSome(visual_dim) => visual_dim' = visual_dim
              /\ IsSome(text_dim) => text_dim' = text_dim ]_vars

\* C10 witness: both kinds hold vectors, of different dimensions, and the
\* last add was rejected
C10_Witness ==
    /\ ret.op \in AddOps
    /\ ~ret.ok
    /\ Cardinality(DOMAIN visual_embeddings) = MaxDocs
    /\ text_embeddings # EmptyMap
    /\ visual_dim # text_dim

StoreVars == << textVars, vectorVars, doc_store >>

\* C11: when the asset id matches no persisted document,
\* update_with_ai_results returns DocumentNotFound and remove_asset returns
\* Ok, and both leave the text index, the vector store and the durable store
\* unchanged.
C11_UnknownAssetNoChange ==
    [][ /\ \A a \in AssetIds, r \in AiResults :
              (UpdateBegin(a, r) /\ DocsOfAsset(a) = {})
              => /\ ret'.op = "update_with_ai_results"
                 /\ ~ret'.ok
                 /\ ret'.err = "DocumentNotFound"
                 /\ pending' = None
                 /\ UNCHANGED StoreVars
        /\ \A a \in AssetIds :
              (RemoveAsset(a) /\ DocsOfAsset(a) = {})
              => /\ ret'.op = "remove_asset"
                 /\ ret'.ok
                 /\ UNCHANGED StoreVars ]_vars

\* C11 witness: update_with_ai_results has returned DocumentNotFound while
\* the service holds a document of another asset, with embeddings
C11_Witness ==
    /\ ret.op = "update_with_ai_results"
    /\ ret.err = "DocumentNotFound"
    /\ DocsOfAsset(ret.arg) = {}
    /\ doc_store # EmptyMap
    /\ visual_embeddings # EmptyMap

HybridReturned == ret.op = "search_hybrid" /\ ret.ok

\* the positions of document id in a list of search results
PositionsOf(results, id) ==
    {k \in 1..Len(results) : results[k].document.id = id}

\* C12: in search_hybrid a document matched by text with score T and by the
\* vector search with similarity S is at most once in the result, is in it
\* unless the truncation to max_results cut it, and has there the score
\* T * text_weight + S * vector_weight and a match_reason made of the text
\* match's reason and the visual similarity.
C12_HybridCombinedScore ==
    HybridReturned =>
        LET v == ret.value
            both == ResultIds(v.text_results) \cap ResultIds(v.vector_results)
            all == ResultIds(v.text_results) \cup ResultIds(v.vector_results)
        IN  \A d \in both :
                LET text == ResultOf(v.text_results, d)
                    vector == ResultOf(v.vector_results, d)
                    hits == PositionsOf(v.results, d)
                IN  /\ Cardinality(hits) <= 1
                    /\ Cardinality(all) <= v.call.max_results => hits # {}
                    /\ \A k \in hits :
                          /\ v.results[k].score * WeightScale =
                                 text.text_score * TextWeight
                                 + vector.vector_score * VectorWeight
                          /\ v.results[k].match_reason =
                                 text.match_reason \o << " + Visual similarity" >>
                          /\ text.match_reason[1] = "Text match in: "
                          /\ v.results[k].text_score = text.score
                          /\ v.results[k].vector_score = vector.score

\* C12 witness: search_hybrid returned two documents, the first found by
\* text and by vector with a text score and a similarity that are not zero,
\* the other found by one search only
C12_Witness ==
    /\ HybridReturned
    /\ Len(ret.value.results) = 2
    /\ ret.value.results[1].document.id
           \in ResultIds(ret.value.text_results)
               \cap ResultIds(ret.value.vector_results)
    /\ ret.value.results[1].text_score # 0
    /\ ret.value.results[1].vector_score > 0
    /\ ret.value.results[2].document.id
           \notin ResultIds(ret.value.text_results)
                  \cap ResultIds(ret.value.vector_results)

\* the documents of a search_hybrid found by the text search only, and by the
\* vector search only
TextOnlyIds ==
    ResultIds(ret.value.text_results) \ ResultIds(ret.value.vector_results)

VectorOnlyIds ==
    ResultIds(ret.value.vector_results) \ ResultIds(ret.value.text_results)

\* C13 as stated: in search_hybrid a document found only by the text search
\* has final score text_score * text_weight, and a document found only by
\* the vector search has final score vector_score * vector_weight.
C13_SingleSourceScore ==
    HybridReturned =>
        /\ \A d \in TextOnlyIds : \A k \in PositionsOf(ret.value.results, d) :
               ret.value.results[k].score * WeightScale =
                   ResultOf(ret.value.text_results, d).text_score * TextWeight
        /\ \A d \in VectorOnlyIds : \A k \in PositionsOf(ret.value.results, d) :
               ret.value.results[k].score * WeightScale =
                   ResultOf(ret.value.vector_results, d).vector_score
                   * VectorWeight

\* C13 amended: in search_hybrid a document found only by the text search
\* has final score text_score * text_weight * quality_score, and a document
\* found only by the vector search has final score
\* vector_score * vector_weight * quality_score, with quality_score that of
\* the persisted document.
C13_SingleSourceScoreTimesQuality ==
    HybridReturned =>
        /\ \A d \in TextOnlyIds : \A k \in PositionsOf(ret.value.results, d) :
               LET weighted ==
                       ResultOf(ret.value.text_results, d).text_score * TextWeight
               IN  /\ weighted % WeightScale = 0
                   /\ ret.value.results[k].score * QualityOne =
                          (weighted \div WeightScale)
                          * StoredDoc(d).quality_score
        /\ \A d \in VectorOnlyIds : \A k \in PositionsOf(ret.value.results, d) :
               LET weighted ==
                       ResultOf(ret.value.vector_results, d).vector_score
                       * VectorWeight
               IN  /\ weighted % WeightScale = 0
                   /\ ret.value.results[k].score * QualityOne =
                          (weighted \div WeightScale)
                          * StoredDoc(d).quality_score

\* C13 witness: search_hybrid returned a document found only by text and a
\* document found only by vector, with a quality score above 1.0
C13_Witness ==
    /\ HybridReturned
    /\ \E d \in TextOnlyIds : \E k \in PositionsOf(ret.value.results, d) :
           StoredDoc(d).quality_score > QualityOne
    /\ \E d \in VectorOnlyIds : \E k \in PositionsOf(ret.value.results, d) :
           /\ ret.value.results[k].vector_score > 0
           /\ StoredDoc(d).quality_score > QualityOne

\* C14: search_hybrid returns at most max_results results, in non-increasing
\* order of final score, each document id at most once, whether the document
\* was found by text, by vector or by both.
C14_HybridRanked ==
    HybridReturned =>
        LET results == ret.value.results
        IN  /\ Len(results) <= ret.value.call.max_results
            /\ \A i, j \in 1..Len(results) :
                   /\ i < j => results[i].score >= results[j].score
                   /\ i # j => results[i].document.id # results[j].document.id

\* C14 witness: search_hybrid with max_results 1 had a document found by
\* both searches and a document found by one, with different final scores,
\* and returned one of them
C14_Witness ==
    /\ HybridReturned
    /\ ret.value.call.max_results = 1
    /\ Len(ret.value.results) = 1
    /\ ResultIds(ret.value.text_results) \cap ResultIds(ret.value.vector_results)
           # {}
    /\ TextOnlyIds \cup VectorOnlyIds # {}

\* C15: TextIndex.search with a query shorter than min_query_length, or with
\* a query whose tokenization is empty, returns Ok with an empty list in every
\* state of the index and leaves the index unchanged.
C15_ShortQueryEmpty ==
    [][ \A c \in SearchCalls :
            (TextSearchCall(c[1], c[2])
                 /\ (Len(c[1]) < MinQueryLength \/ Len(Tokenize(c[1])) = 0))
            => /\ ret'.op = "TextIndex.search"
               /\ ret'.ok
               /\ ret'.value = << >>
               /\ UNCHANGED textVars ]_vars

\* C15 witness: a query of two characters that tokenizes to nothing was
\* searched in an index that holds documents
C15_Witness ==
    /\ ret.op = "TextIndex.search"
    /\ Len(ret.arg) >= MinQueryLength
    /\ Len(Tokenize(ret.arg)) = 0
    /\ ret.value = << >>
    /\ Cardinality(DOMAIN document_terms) = MaxDocs

\* the documents for which a term of the query is indexed
DocsWithTermOf(query) ==
    LET terms == Tokenize(query)
    IN  {d \in DOMAIN document_terms :
            \E i \in 1..Len(terms) : terms[i] \in document_terms[d]}

C17_SearchTopByScore ==
    [][ \A c \in SearchCalls :
            TextSearchCall(c[1], c[2])
            => LET found == ret'.value
                   terms == Tokenize(c[1])
               IN  /\ Len(found) <= c[2]
                   /\ \A i, j \in 1..Len(found) :
                          i < j => found[i].score >= found[j].score
                   /\ \A d \in DocsWithTermOf(c[1]) \ ReturnedIds(found) :
                          \A k \in 1..Len(found) :
                              FinalScore(TI, terms, d) <= found[k].score ]_vars

\* C17 witness: a search returned one match and left out a matching
\* document of a lower score
C17_Witness ==
    /\ ret.op = "TextIndex.search"
    /\ Len(ret.value) = 1
    /\ \E d \in DocsWithTermOf(ret.arg) \ ReturnedIds(ret.value) :
           FinalScore(TI, Tokenize(ret.arg), d) < ret.value[1].score

\* C18: after from_asset followed by any sequence of add_tags, add_ai_tags,
\* set_transcription, set_ai_caption, set_visual_embedding and
\* set_text_embedding, search_text is the lower-cased concatenation derived
\* from the document's current fields and quality_score is the quality
\* formula applied to the document's current fields.
C18_DerivedFieldsCurrent ==
    HasDocument =>
        /\ ret.value.search_text = SearchTextOf(ret.value)
        /\ ret.value.quality_score = QualityOf(ret.value)

\* the half of C18 about search_text alone
C18_SearchTextCurrent ==
    HasDocument => ret.value.search_text = SearchTextOf(ret.value)

\* the embedding map of one kind
EmbeddingsOf(embedding_type) ==
    IF embedding_type = "Visual" THEN visual_embeddings ELSE text_embeddings

\* the similarity find_similar_to_document computes between two stored
\* documents of one kind; the searches leave the store as it was, so the
\* store a returned search is judged against is the store it read
StoredSimilarity(embedding_type, doc_id, other) ==
    cosine_similarity(Renormalize(EmbeddingsOf(embedding_type)[doc_id]),
                      EmbeddingsOf(embedding_type)[other])

\* C19: find_similar_to_document(id, kind, top_k, min_similarity) returns
\* DocumentNotFound when id has no stored vector of that kind; otherwise its
\* result never contains id, has at most top_k entries, and omits no other
\* document of that kind meeting min_similarity that is more similar than a
\* returned one.
C19_SimilarToDocument ==
    ret.op = "VectorStore.find_similar_to_document"
    => LET id == ret.arg
           t == ret.value.call.embedding_type
           top_k == ret.value.call.top_k
           min_similarity == ret.value.call.min_similarity
           found == ret.value.results
           ids == {found[k].document_id : k \in 1..Len(found)}
       IN  IF id \notin DOMAIN EmbeddingsOf(t)
           THEN ~ret.ok /\ ret.err = "DocumentNotFound"
           ELSE /\ ret.ok
                /\ id \notin ids
                /\ Len(found) <= top_k
                /\ \A d \in (DOMAIN EmbeddingsOf(t) \ ids) \ {id} :
                       StoredSimilarity(t, id, d) >= min_similarity
                       => \A k \in 1..Len(found) :
                              StoredSimilarity(t, id, d) <= found[k].similarity

\* C19 witness: a call with top_k = 1 on a document with two neighbours
\* meeting min_similarity returned the nearer one and left out the other
C19_Witness ==
    /\ ret.op = "VectorStore.find_similar_to_document"
    /\ ret.ok
    /\ ret.value.call.top_k = 1
    /\ Len(ret.value.results) = 1
    /\ ret.arg \in DOMAIN EmbeddingsOf(ret.value.call.embedding_type)
    /\ \E d \in DOMAIN EmbeddingsOf(ret.value.call.embedding_type) \ {ret.arg} :
           /\ d # ret.value.results[1].document_id
           /\ StoredSimilarity(ret.value.call.embedding_type, ret.arg, d)
                  >= ret.value.call.min_similarity
           /\ StoredSimilarity(ret.value.call.embedding_type, ret.arg, d)
                  < ret.value.results[1].similarity

\* C19 witness of the error branch: the document had no vector of the kind
\* while another document had one
C19_WitnessNotFound ==
    /\ ret.op = "VectorStore.find_similar_to_document"
    /\ ~ret.ok
    /\ ret.err = "DocumentNotFound"
    /\ EmbeddingsOf(ret.value.call.embedding_type) # EmptyMap

SimilarityOps == {"VectorStore.find_visual_similar",
                  "VectorStore.find_text_similar"}

\* the embedding map a similarity search reads
SearchedEmbeddings(op) ==
    IF op = "VectorStore.find_visual_similar" THEN visual_embeddings
    ELSE text_embeddings

\* C20: find_visual_similar and find_text_similar return only documents of
\* the requested kind whose similarity to the query is at least
\* min_similarity, at most top_k of them, in non-increasing similarity
\* order, and return Ok with an empty list when that kind's store is empty.
C20_SimilarFilteredRanked ==
    ret.op \in SimilarityOps
    => LET embeddings == SearchedEmbeddings(ret.op)
           query == normalize_vector(ret.arg)
           found == ret.value.results
       IN  /\ embeddings = EmptyMap => (ret.ok /\ found = << >>)
           /\ ret.ok =>
                 /\ Len(found) <= ret.value.call.top_k
                 /\ \A k \in 1..Len(found) :
                        /\ found[k].document_id \in DOMAIN embeddings
                        /\ found[k].similarity =
                               cosine_similarity(query,
                                   embeddings[found[k].document_id])
                        /\ found[k].similarity >= ret.value.call.min_similarity
                 /\ \A i, j \in 1..Len(found) :
                        i < j => found[i].similarity >= found[j].similarity

\* C20 witness: a search returned two documents, the more similar first
C20_Witness ==
    /\ ret.op \in SimilarityOps
    /\ ret.ok
    /\ Len(ret.value.results) = 2
    /\ ret.value.results[1].similarity > ret.value.results[2].similarity

\* C20 witness of the filter: a stored document of the kind is below
\* min_similarity and is not returned
C20_WitnessFiltered ==
    /\ ret.op \in SimilarityOps
    /\ ret.ok
    /\ \E d \in DOMAIN SearchedEmbeddings(ret.op) :
           /\ cosine_similarity(normalize_vector(ret.arg),
                                SearchedEmbeddings(ret.op)[d])
                  < ret.value.call.min_similarity
           /\ \A k \in 1..Len(ret.value.results) :
                  ret.value.results[k].document_id # d

\* C20 witness of the truncation: top_k = 1 left out a document that meets
\* min_similarity
C20_WitnessTruncated ==
    /\ ret.op \in SimilarityOps
    /\ ret.ok
    /\ Len(ret.value.results) = 1
    /\ \E d \in DOMAIN SearchedEmbeddings(ret.op) :
           /\ d # ret.value.results[1].document_id
           /\ cosine_similarity(normalize_vector(ret.arg),
                                SearchedEmbeddings(ret.op)[d])
                  >= ret.value.call.min_similarity

\* C20 witness of the empty store: the other kind holds vectors, the
\* searched kind none
C20_WitnessEmptyStore ==
    /\ ret.op \in SimilarityOps
    /\ ret.ok
    /\ SearchedEmbeddings(ret.op) = EmptyMap
    /\ visual_embeddings # EmptyMap \/ text_embeddings # EmptyMap

\* the persisted documents that deserialize
Recovered == {k \in DOMAIN doc_store : IsSome(from_slice(doc_store[k]))}

\* C21: reload_from_storage returns Ok even when some persisted entries fail
\* to deserialize, and afterwards every deserializable persisted document is
\* in the Text Index and every embedding carried by such a document is in
\* the Vector Store of its kind.
C21_ReloadRecoversAll ==
    ret.op = "new"
    => /\ ret.ok
       /\ \A k \in Recovered :
              LET d == from_slice(doc_store[k])[1]
              IN  /\ d.id \in DOMAIN document_terms
                  /\ IsSome(d.visual_embedding)
                     => /\ d.id \in DOMAIN visual_embeddings
                        /\ visual_embeddings[d.id]
                               = normalize_vector(d.visual_embedding[1])
                  /\ IsSome(d.text_embedding)
                     => /\ d.id \in DOMAIN text_embeddings
                        /\ text_embeddings[d.id]
                               = normalize_vector(d.text_embedding[1])

\* the half of C21 about the Text Index alone
C21_ReloadRecoversText ==
    ret.op = "new"
    => /\ ret.ok
       /\ \A k \in Recovered :
              from_slice(doc_store[k])[1].id \in DOMAIN document_terms

\* the three stores hold nothing
AllEmpty ==
    /\ term_index = EmptyMap
    /\ document_terms = EmptyMap
    /\ visual_embeddings = EmptyMap
    /\ text_embeddings = EmptyMap
    /\ doc_store = EmptyMap

\* the list a search of the service returned
SearchResults ==
    IF ret.op = "search_text" THEN ret.value ELSE ret.value.results

ServiceSearches == {"search_text", "search_visual_similar", "search_hybrid"}

\* C22: after clear returns Ok, the Text Index has no terms and no
\* documents, both embedding maps are empty, the durable store has no
\* entries, and every text, visual and hybrid search returns an empty list
\* until a new asset is indexed.
C22_ClearEmptiesAll ==
    [][ /\ (ret'.op = "clear" /\ ret'.ok) => AllEmpty'
        /\ (AllEmpty /\ ret'.op # "index_asset") => AllEmpty'
        /\ (AllEmpty' /\ ret'.op \in ServiceSearches)
               => (ret'.ok /\ SearchResults' = << >>) ]_vars

\* C22 witness: clear returned Ok and the three stores are empty
C22_Witness ==
    /\ ret.op = "clear"
    /\ ret.ok
    /\ AllEmpty

\* C22 witness of the searches: a hybrid search with a query embedding ran
\* on the empty stores and returned nothing
C22_WitnessSearch ==
    /\ ret.op = "search_hybrid"
    /\ ret.ok
    /\ IsSome(ret.value.call.query_embedding)
    /\ AllEmpty
    /\ ret.value.results = << >>

\* C23: in every reachable state of the Text Index, the forward and reverse
\* maps agree: a document id is in the posting map of term t if and only if
\* t is in the reverse-map term set of that id, no term has an empty posting
\* map, and no posting list for a (term, document) pair is empty.
C23_ForwardReverseAgree ==
    /\ \A t \in DOMAIN term_index :
           /\ DOMAIN term_index[t] # {}
           /\ \A id \in DOMAIN term_index[t] :
                  /\ id \in DOMAIN document_terms
                  /\ t \in document_terms[id]
                  /\ Len(term_index[t][id]) > 0
    /\ \A id \in DOMAIN document_terms :
           \A t \in document_terms[id] :
               /\ t \in DOMAIN term_index
               /\ id \in DOMAIN term_index[t]

\* C23 witness: a document was removed from an index of several documents
\* and a term it shared with another document is still indexed
C23_Witness ==
    /\ ret.op = "TextIndex.remove_document"
    /\ IsSome(ret.value.previous)
    /\ \E t \in ret.value.previous[1] : t \in DOMAIN term_index
    /\ \E t \in ret.value.previous[1] : t \notin DOMAIN term_index

\* the running update_with_ai_results is about to have its text embedding
\* rejected: the lock is held, so its next step is the add_text_embedding of
\* lines 135-138, which returns VectorError
TextAddWillFail ==
    /\ IsSome(pending)
    /\ pending[1].pc = "text"
    /\ IsSome(pending[1].results.text_embedding)
    /\ ~add_text_embedding(VS, pending[1].document.id,
                           pending[1].results.text_embedding[1]).ok

\* C24: if update_with_ai_results returns an error, for instance VectorError
\* because one of the supplied embeddings has a mismatching length, then the
\* Text Index, both embedding maps with their dimensions, and the durable
\* store are exactly as they were before the call, also when both a visual
\* and a text embedding were supplied.  A call changes the stores step by
\* step while it holds the lock: the step that returns the error changes
\* nothing, and no earlier step of a call that is about to return the error
\* has changed anything.
C24_FailedUpdateChangesNothing ==
    [][ /\ (ret'.op = "update_with_ai_results" /\ ~ret'.ok /\ pending' = None
               /\ (IsSome(pending) \/ ret' # ret))
           => UNCHANGED StoreVars
        /\ (IsSome(pending) /\ TextAddWillFail')
           => UNCHANGED StoreVars ]_vars

\* a multi-term TextIndex.search has returned
MultiTermSearchReturned ==
    /\ ret.op = "TextIndex.search"
    /\ Len(ret.arg) >= MinQueryLength
    /\ Len(Tokenize(ret.arg)) > 1

\* the document holds every term of the query, by the reverse map
ContainsAllTerms(query, doc_id) ==
    \A i \in 1..Len(Tokenize(query)) :
        Tokenize(query)[i] \in document_terms[doc_id]

\* the summed per-term score of a document, in units of 1/ScoreScale
UnboostedScore(query, doc_id) ==
    SumTermScores(TI, Tokenize(query), doc_id, 1) * 100

\* C25: for a query with more than one term, TextIndex.search multiplies the
\* summed per-term score of every document containing all query terms by 1.5
\* and by 1.2, and leaves unchanged the score of every document that lacks
\* at least one query term.
C25_AllTermsBoost ==
    MultiTermSearchReturned
    => \A k \in 1..Len(ret.value) :
           LET id == ret.value[k].document_id
           IN  ret.value[k].score =
                   IF ContainsAllTerms(ret.arg, id)
                   THEN (UnboostedScore(ret.arg, id) * 15 * 12) \div 100
                   ELSE UnboostedScore(ret.arg, id)

\* C25 witness: a two-term search returned a document that holds both terms
\* and one that lacks a term, both with a score other than zero
C25_Witness ==
    /\ MultiTermSearchReturned
    /\ \E k \in 1..Len(ret.value) :
           /\ ContainsAllTerms(ret.arg, ret.value[k].document_id)
           /\ ret.value[k].score # 0
    /\ \E k \in 1..Len(ret.value) :
           /\ ~ContainsAllTerms(ret.arg, ret.value[k].document_id)
           /\ ret.value[k].score # 0

\* C26: in TextIndex.search, the bonus given to a document that contains all
\* terms of a multi-term query never lowers that document's score below its
\* un-boosted sum of per-term scores, for every index content (including
\* terms that occur in every indexed document).
C26_BonusNeverLowers ==
    MultiTermSearchReturned
    => \A k \in 1..Len(ret.value) :
           ContainsAllTerms(ret.arg, ret.value[k].document_id)
           => ret.value[k].score
                  >= UnboostedScore(ret.arg, ret.value[k].document_id)

\* the elements of a list
Elements(v) == {v[i] : i \in 1..Len(v)}

\* strictly ascending in the order of String: sorted and without duplicates
StrictlySorted(v) == \A i \in 1..(Len(v) - 1) : StrLess(v[i], v[i + 1])

\* C27: after add_tags or add_ai_tags, the document's tag list is sorted,
\* has no duplicates, and as a set equals the union of the previous tags and
\* the supplied tags; applying the same tag list a second time changes
\* nothing, and the result does not depend on the order in which tag lists
\* are applied.
C27_TagsSortedUnion ==
    [][ \A tags \in SampleTags :
          /\ DocAddTags(tags)
             => /\ StrictlySorted(ret'.value.tags)
                /\ Elements(ret'.value.tags)
                       = Elements(ret.value.tags) \cup Elements(tags)
                /\ add_tags(ret'.value, tags) = ret'.value
                /\ \A other \in SampleTags :
                       add_tags(ret'.value, other)
                           = add_tags(add_tags(ret.value, other), tags)
          /\ DocAddAiTags(tags)
             => /\ StrictlySorted(ret'.value.ai_tags)
                /\ Elements(ret'.value.ai_tags)
                       = Elements(ret.value.ai_tags) \cup Elements(tags)
                /\ add_ai_tags(ret'.value, tags) = ret'.value
                /\ \A other \in SampleTags :
                       add_ai_tags(ret'.value, other)
                           = add_ai_tags(add_ai_tags(ret.value, other), tags)
      ]_vars

\* C27 witness: add_tags has built a list of four tags out of lists that
\* overlap and repeat a tag, and add_ai_tags a list of several
C27_Witness ==
    /\ ret.op = "AssetDocument.add_tags"
    /\ Len(ret.value.tags) = 4
    /\ Len(ret.value.ai_tags) >= 2

\* C28: find_visual_similar, find_text_similar and search_visual_similar
\* return a Result (Ok or an error) for every query vector, including one
\* whose length differs from the dimension recorded for that kind; no
\* reachable call aborts on the length assertion of cosine_similarity.
C28_SimilarityNeverAborts ==
    ret.op \in (SimilarityOps \cup {"search_visual_similar"})
    => ret.err # "panic"

\* the terms add_document indexes for a document
IndexedTermsOf(d) ==
    IndexFields([term_index |-> EmptyMap, doc_terms |-> {}], d.id,
                BoostedFields(d), 1).doc_terms

\* C29: every result of search_text(q) carries a persisted document whose
\* indexed fields contain at least one token of q, after any sequence of
\* operations, including operations that returned an error because a
\* durable-store write failed.
C29_ResultsMatchPersisted ==
    ret.op = "search_text"
    => \A k \in 1..Len(ret.value) :
           LET d == ret.value[k].document
           IN  /\ d.id \in DOMAIN doc_store
               /\ from_slice(doc_store[d.id]) = Some(d)
               /\ \E i \in 1..Len(Tokenize(ret.arg)) :
                      Tokenize(ret.arg)[i] \in IndexedTermsOf(d)

\* C30: VectorStore.remove_document leaves both recorded dimensions
\* unchanged, also when it removes the last vector of a kind, so a later add
\* of a different length for that kind is still rejected; only clear resets
\* a recorded dimension to unset.
C30_RemoveKeepsDimensions ==
    [][ /\ ret'.op = "VectorStore.remove_document"
               => UNCHANGED << visual_dim, text_dim >>
        /\ (IsSome(visual_dim) /\ ret'.op = "VectorStore.add_visual_embedding"
               /\ Len(ret'.value.embedding) # visual_dim[1])
               => (~ret'.ok /\ ret'.err = "VectorError"
                      /\ UNCHANGED vectorVars)
        /\ (IsSome(text_dim) /\ ret'.op = "VectorStore.add_text_embedding"
               /\ Len(ret'.value.embedding) # text_dim[1])
               => (~ret'.ok /\ ret'.err = "VectorError"
                      /\ UNCHANGED vectorVars)
        /\ ((IsSome(visual_dim) /\ visual_dim' = None)
               \/ (IsSome(text_dim) /\ text_dim' = None))
               => ret'.op = "VectorStore.clear" ]_vars

\* C30 witness: an add of another length was rejected although the last
\* visual vector had been removed
C30_Witness ==
    /\ ret.op = "VectorStore.add_visual_embedding"
    /\ ~ret.ok
    /\ ret.err = "VectorError"
    /\ visual_embeddings = EmptyMap
    /\ IsSome(visual_dim)
    /\ Len(ret.value.embedding) # visual_dim[1]

\* C30 witness of the removal: remove_document took the last vectors of both
\* kinds and both dimensions are still recorded
C30_WitnessRemoved ==
    /\ ret.op = "VectorStore.remove_document"
    /\ Len(ret.value.previous) = 2
    /\ visual_embeddings = EmptyMap
    /\ text_embeddings = EmptyMap
    /\ IsSome(visual_dim)
    /\ IsSome(text_dim)

====
